---- MODULE Spec2Model ----
(***************************************************************************)
(* Model of the swing-trading recommendation core and of the method that   *)
(* runs it:                                                                *)
(*   TechnicalAnalyzer.generate_signals      (analysis/technical_analyzer) *)
(*   FundamentalAnalyzer.analyze_fundamentals(analysis/fundamental_analyzer)*)
(*   SentimentAnalyzer.analyze_news_collection(analysis/sentiment_analyzer)*)
(*   TradingPredictor.generate_recommendation(prediction/trading_predictor)*)
(*   StockAnalysisCrew.analyze_stock         (agents/crew_config)          *)
(*                                                                         *)
(* Numbers.  Python floats are modelled as exact rationals [n, d] in       *)
(* lowest terms with d > 0: arithmetic is the real arithmetic the float    *)
(* expressions approximate, and round(x, k) is rounding to k decimals with *)
(* ties to even.  A Python dict is a function whose DOMAIN is its key set, *)
(* a list is a sequence, None is the value None below.                     *)
(***************************************************************************)
EXTENDS Integers, Sequences, FiniteSets, TLC

VARIABLES
    \* arguments and return value of TradingPredictor.generate_recommendation
    current_price, time_horizon_weeks, technical_analysis, fundamental_analysis,
    sentiment_analysis, historical_data, forced_exception, recommendation,
    \* argument and return value of TechnicalAnalyzer.generate_signals
    indicators, signals,
    \* argument and return value of FundamentalAnalyzer.analyze_fundamentals
    fundamental_data, analysis,
    \* argument and return value of SentimentAnalyzer.analyze_news_collection
    news_dict, results,
    \* StockAnalysisCrew.analyze_stock: the step it is at, the calls it has made, what
    \* get_all_data returned, and the dict it returns
    pc, calls, stock_data, crew_results

vars == <<current_price, time_horizon_weeks, technical_analysis, fundamental_analysis,
          sentiment_analysis, historical_data, forced_exception, recommendation,
          indicators, signals, fundamental_data, analysis, news_dict, results,
          pc, calls, stock_data, crew_results>>

predictor_vars == <<current_price, time_horizon_weeks, technical_analysis,
                    fundamental_analysis, sentiment_analysis, historical_data,
                    forced_exception, recommendation>>

technical_vars == <<indicators, signals>>

fundamental_vars == <<fundamental_data, analysis>>

sentiment_vars == <<news_dict, results>>

crew_vars == <<pc, calls, stock_data, crew_results>>

\* Python's None.
None == [none |-> TRUE]

\* The value of a result variable before the function has returned.
NotCalled == [called |-> FALSE]

(***************************************************************************)
(* Rational arithmetic                                                     *)
(***************************************************************************)
Abs(x) == IF x < 0 THEN -x ELSE x

RECURSIVE GCD(_, _)
GCD(a, b) == IF b = 0 THEN a ELSE GCD(b, a % b)

\* n/d in lowest terms, d > 0.
R(n, d) ==
    LET g == GCD(Abs(n), Abs(d))
        s == IF d < 0 THEN -1 ELSE 1
    IN  [n |-> s * (n \div g), d |-> s * (d \div g)]

Zero == R(0, 1)

IsNumber(x) == DOMAIN x = {"n", "d"}

Add(a, b) ==
    LET g == GCD(a.d, b.d)
    IN  R(a.n * (b.d \div g) + b.n * (a.d \div g), (a.d \div g) * b.d)

Neg(a) == [n |-> -a.n, d |-> a.d]

Sub(a, b) == Add(a, Neg(b))

Mul(a, b) ==
    LET g1 == GCD(Abs(a.n), b.d)
        g2 == GCD(Abs(b.n), a.d)
    IN  R((a.n \div g1) * (b.n \div g2), (a.d \div g2) * (b.d \div g1))

\* a / b, for b # 0 (Python raises ZeroDivisionError otherwise: callers test first).
Div(a, b) == Mul(a, R(b.d, b.n))

Lt(a, b) == a.n * b.d < b.n * a.d

Le(a, b) == a.n * b.d <= b.n * a.d

Gt(a, b) == Lt(b, a)

Ge(a, b) == Le(b, a)

RAbs(a) == [n |-> Abs(a.n), d |-> a.d]

RMin(a, b) == IF Le(a, b) THEN a ELSE b

RMax(a, b) == IF Ge(a, b) THEN a ELSE b

\* <<floor(r * scale / d), (r * scale) % d>> for 0 <= r < d and scale a power of
\* ten, one decimal digit at a time.
RECURSIVE ScaleDiv(_, _, _)
ScaleDiv(r, d, scale) ==
    IF scale = 1 THEN <<0, r>>
    ELSE LET prev == ScaleDiv(r, d, scale \div 10)
         IN  <<prev[1] * 10 + (prev[2] * 10) \div d, (prev[2] * 10) % d>>

\* Python round(x, k) with scale = 10^k: nearest multiple of 1/scale, ties to even.
Round(x, scale) ==
    LET qr   == ScaleDiv(x.n % x.d, x.d, scale)
        fl   == (x.n \div x.d) * scale + qr[1]
        up   == 2 * qr[2] > x.d \/ (2 * qr[2] = x.d /\ fl % 2 = 1)
    IN  R(IF up THEN fl + 1 ELSE fl, scale)

\* dict.get(key, default)
Get(dict, key, default) == IF key \in DOMAIN dict THEN dict[key] ELSE default

(***************************************************************************)
(* TradingPredictor                                                        *)
(***************************************************************************)
\* The steps of generate_recommendation in which a test can force an exception.
Steps == {"blend", "price_targets", "risk", "reasoning", "position_size"}

\* np.sqrt(252) = 15.87..., the annualisation factor of line 121, to the nearest
\* integer: the products of line 125 then stay within TLC's 32-bit integers.
Sqrt252 == R(16, 1)

\* historical_data is None or a DataFrame, kept as what the predictor reads of it:
\* len(df), whether it has a Close column, and the standard deviation of the
\* daily returns (NaN, here None, when fewer than two returns exist).
IsFrame(hd) == hd # None

Empty(hd) == hd.len = 0

\* The 52 of line 125: the horizon is taken as a fraction of a year of 52 weeks.
WeeksPerYear == 52

\* Mutant of EnoughHistory: 20 bars are taken as enough.
EnoughHistoryFrom20(hd) == ~Empty(hd) /\ hd.len >= 20

\* line 119: the volatility estimate is used with more than 20 bars.
EnoughHistory(hd) == ~Empty(hd) /\ hd.len > 20

\* lines 114-150.  forced: a test makes the body of the try raise.
_calculate_price_targets(cp, weighted_score, weeks, hd, forced) ==
    LET long   == IsFrame(hd) /\ EnoughHistory(hd)
        raises == forced \/ ~IsFrame(hd) \/ (long /\ ~hd.has_close)
        volatility       == Mul(hd.std, Sqrt252)
        price_change_pct == Mul(Mul(Mul(Div(weighted_score, R(100, 1)), volatility),
                                    R(weeks, WeeksPerYear)), R(2, 1))
    IN  IF raises
        THEN <<Mul(cp, R(105, 100)), Mul(cp, R(97, 100))>>
        ELSE IF long
        THEN <<Mul(cp, Add(R(1, 1), price_change_pct)),
               IF Gt(weighted_score, Zero) THEN Mul(cp, R(97, 100))
                                           ELSE Mul(cp, R(103, 100))>>
        ELSE IF Gt(weighted_score, Zero)
        THEN <<Mul(cp, R(105, 100)), Mul(cp, R(97, 100))>>
        ELSE IF Lt(weighted_score, Zero)
        THEN <<Mul(cp, R(95, 100)), Mul(cp, R(103, 100))>>
        ELSE <<cp, Mul(cp, R(98, 100))>>

\* Python truthiness of indicators.get('atr'): None, a missing key and 0 are false.
Truthy(x) == x # None /\ x.n # 0

\* Mutant of RiskLevel: HIGH only above three factors.
RiskLevelAboveThree(risk_factors) ==
    IF risk_factors > 3 THEN "HIGH"
    ELSE IF risk_factors >= 2 THEN "MEDIUM"
    ELSE "LOW"

\* lines 181-186.
RiskLevel(risk_factors) ==
    IF risk_factors >= 3 THEN "HIGH"
    ELSE IF risk_factors >= 2 THEN "MEDIUM"
    ELSE "LOW"

\* Mutant of RiskOnException: the except clause answers LOW.
RiskOnExceptionLow == "LOW"

\* lines 188-190: what the except clause of _assess_risk returns.
RiskOnException == "MEDIUM"

\* lines 152-190.
_assess_risk(ta, fa, sa, hd, forced) ==
    LET ind       == Get(ta, "indicators", <<>>)
        atr       == Get(ind, "atr", None)
        price     == Get(ind, "current_price", R(1, 1))
        atr_used  == Truthy(atr)
        raises    == \/ forced
                     \/ atr_used /\ (price = None \/ price.n = 0)
                     \/ ~IsFrame(hd)
                     \/ ~Empty(hd) /\ ~hd.has_close
        technical == IF atr_used /\ Gt(Div(atr, price), R(5, 100)) THEN 1 ELSE 0
        fundament == IF Lt(Get(fa, "score", R(50, 1)), R(40, 1)) THEN 1 ELSE 0
        sentiment == IF Gt(RAbs(Get(sa, "overall_sentiment", Zero)), R(5, 10)) THEN 1 ELSE 0
        history   == IF ~Empty(hd) /\ hd.std # None /\ Gt(hd.std, R(3, 100)) THEN 1 ELSE 0
        risk_factors == technical + fundament + sentiment + history
    IN  IF raises THEN RiskOnException ELSE RiskLevel(risk_factors)

\* lines 192-218.  The text is kept as the list of its parts (joined by ". ").
_generate_reasoning(action, technical_signals, fundamental_assessment, sa, weighted_score) ==
    LET tech_reasoning == Get(technical_signals, "reasoning", <<>>)
        first3 == SubSeq(tech_reasoning, 1, IF Len(tech_reasoning) < 3
                                            THEN Len(tech_reasoning) ELSE 3)
        technical == IF tech_reasoning # <<>> THEN << <<"Technical", first3>> >> ELSE <<>>
        closing == IF Gt(weighted_score, R(30, 1))
                   THEN "Strong bullish signals across all analyses"
                   ELSE IF Lt(weighted_score, R(-30, 1))
                   THEN "Strong bearish signals across all analyses"
                   ELSE "Mixed signals, suggesting cautious approach"
    IN  technical \o
        << <<"Fundamental", fundamental_assessment>>,
           <<"Sentiment", Get(sa, "overall_sentiment_label", "NEUTRAL")>>,
           <<"Overall", closing>> >>

\* Mutant of _suggest_position_size: the larger size from a confidence of 50 on.
SuggestFromFifty(confidence, risk_level) ==
    LET sure == Ge(confidence, R(50, 1))
    IN  IF risk_level = "HIGH"
        THEN IF sure THEN "Small position (1-2% of portfolio)"
                     ELSE "Very small position (<1% of portfolio)"
        ELSE IF risk_level = "MEDIUM"
        THEN IF sure THEN "Moderate position (2-3% of portfolio)"
                     ELSE "Small position (1-2% of portfolio)"
        ELSE IF sure THEN "Normal position (3-5% of portfolio)"
                     ELSE "Moderate position (2-3% of portfolio)"

\* lines 220-236.
_suggest_position_size(confidence, risk_level) ==
    LET sure == Gt(confidence, R(70, 1))
    IN  IF risk_level = "HIGH"
        THEN IF sure THEN "Small position (1-2% of portfolio)"
                     ELSE "Very small position (<1% of portfolio)"
        ELSE IF risk_level = "MEDIUM"
        THEN IF sure THEN "Moderate position (2-3% of portfolio)"
                     ELSE "Small position (1-2% of portfolio)"
        ELSE IF sure THEN "Normal position (3-5% of portfolio)"
                     ELSE "Moderate position (2-3% of portfolio)"

\* Mutant of WeightedScore: the fundamental term without its 0.70 damping.
WeightedScoreUndamped(technical_signal_strength, fundamental_score, sentiment_score) ==
    Add(Add(Mul(technical_signal_strength, R(40, 100)),
            Mul(Sub(fundamental_score, R(50, 1)), R(35, 100))),
        Mul(Mul(sentiment_score, R(100, 1)), R(25, 100)))

\* Mutant of WeightedScore: the fundamental term without its weight of 0.35.
WeightedScoreUnweighted(technical_signal_strength, fundamental_score, sentiment_score) ==
    Add(Add(Mul(technical_signal_strength, R(40, 100)),
            Mul(Sub(fundamental_score, R(50, 1)), R(70, 100))),
        Mul(Mul(sentiment_score, R(100, 1)), R(25, 100)))

\* Mutant of WeightedScore: the sentiment term subtracted.
WeightedScoreSentimentSubtracted(technical_signal_strength, fundamental_score, sentiment_score) ==
    Sub(Add(Mul(technical_signal_strength, R(40, 100)),
            Mul(Mul(Sub(fundamental_score, R(50, 1)), R(70, 100)), R(35, 100))),
        Mul(Mul(sentiment_score, R(100, 1)), R(25, 100)))

\* lines 51-55.
WeightedScore(technical_signal_strength, fundamental_score, sentiment_score) ==
    Add(Add(Mul(technical_signal_strength, R(40, 100)),
            Mul(Mul(Sub(fundamental_score, R(50, 1)), R(70, 100)), R(35, 100))),
        Mul(Mul(sentiment_score, R(100, 1)), R(25, 100)))

\* Mutant of Decide: the two thresholds exclusive.
DecideStrict(weighted_score) ==
    IF Gt(weighted_score, R(30, 1))
    THEN [action |-> "BUY",
          confidence |-> RMin(R(95, 1), Add(R(50, 1), Mul(RAbs(weighted_score), R(9, 10))))]
    ELSE IF Lt(weighted_score, R(-30, 1))
    THEN [action |-> "SELL",
          confidence |-> RMin(R(95, 1), Add(R(50, 1), Mul(RAbs(weighted_score), R(9, 10))))]
    ELSE [action |-> "HOLD",
          confidence |-> RMax(R(30, 1), Sub(R(50, 1), Mul(RAbs(weighted_score), R(5, 10))))]

\* Mutant of Decide: the BUY and SELL confidence without its cap of 95.
DecideUncapped(weighted_score) ==
    IF Ge(weighted_score, R(30, 1))
    THEN [action |-> "BUY",
          confidence |-> Add(R(50, 1), Mul(RAbs(weighted_score), R(9, 10)))]
    ELSE IF Le(weighted_score, R(-30, 1))
    THEN [action |-> "SELL",
          confidence |-> Add(R(50, 1), Mul(RAbs(weighted_score), R(9, 10)))]
    ELSE [action |-> "HOLD",
          confidence |-> RMax(R(30, 1), Sub(R(50, 1), Mul(RAbs(weighted_score), R(5, 10))))]

\* lines 57-66.
Decide(weighted_score) ==
    IF Ge(weighted_score, R(30, 1))
    THEN [action |-> "BUY",
          confidence |-> RMin(R(95, 1), Add(R(50, 1), Mul(RAbs(weighted_score), R(9, 10))))]
    ELSE IF Le(weighted_score, R(-30, 1))
    THEN [action |-> "SELL",
          confidence |-> RMin(R(95, 1), Add(R(50, 1), Mul(RAbs(weighted_score), R(9, 10))))]
    ELSE [action |-> "HOLD",
          confidence |-> RMax(R(30, 1), Sub(R(50, 1), Mul(RAbs(weighted_score), R(5, 10))))]

\* Mutant of ErrorRecommendation: the except clause drops the message.
ErrorRecommendationSilent(message) ==
    [action |-> "HOLD", confidence |-> Zero]

\* lines 106-112: what the except clause of generate_recommendation returns.
ErrorRecommendation(message) ==
    [action |-> "HOLD", confidence |-> Zero, error |-> message]

\* lines 19-112.  forced is the step a test forces to raise, or "none".
generate_recommendation(cp, weeks, ta, fa, sa, hd, forced) ==
    LET technical_signals         == Get(ta, "signals", <<>>)
        technical_signal_strength == Get(technical_signals, "signal_strength", Zero)
        fundamental_score         == Get(fa, "score", R(50, 1))
        fundamental_assessment    == Get(fa, "overall_assessment", "NEUTRAL")
        sentiment_score           == Get(sa, "overall_sentiment", Zero)
        weighted_score == WeightedScore(technical_signal_strength, fundamental_score,
                                        sentiment_score)
        decision   == Decide(weighted_score)
        targets    == _calculate_price_targets(cp, weighted_score, weeks, hd,
                                               forced = "price_targets")
        risk_level == _assess_risk(ta, fa, sa, hd, forced = "risk")
        reasoning  == _generate_reasoning(decision.action, technical_signals,
                                          fundamental_assessment, sa, weighted_score)
        position_size == _suggest_position_size(decision.confidence, risk_level)
    IN  IF forced \in {"blend", "reasoning", "position_size"}
        THEN ErrorRecommendation(forced)
        ELSE [action             |-> decision.action,
              confidence         |-> Round(decision.confidence, 10),
              target_price       |-> Round(targets[1], 100),
              stop_loss          |-> Round(targets[2], 100),
              risk_level         |-> risk_level,
              reasoning          |-> reasoning,
              position_size      |-> position_size,
              time_horizon_weeks |-> weeks,
              weighted_score     |-> Round(weighted_score, 100),
              score_breakdown    |->
                 [technical_contribution   |-> Round(Mul(technical_signal_strength, R(40, 100)), 100),
                  fundamental_contribution |-> Round(Mul(Mul(Sub(fundamental_score, R(50, 1)),
                                                             R(70, 100)), R(35, 100)), 100),
                  sentiment_contribution   |-> Round(Mul(Mul(sentiment_score, R(100, 1)),
                                                         R(25, 100)), 100)]]

(***************************************************************************)
(* TechnicalAnalyzer.generate_signals                                      *)
(***************************************************************************)
\* The tallies while the try block of lines 179-238 runs; raised is set when a
\* comparison with None raises TypeError, which ends the block (lines 240-241).
Tally(buy, sell, neutral, reasoning, raised) ==
    [buy_signals |-> buy, sell_signals |-> sell, neutral_signals |-> neutral,
     reasoning |-> reasoning, raised |-> raised]

Raise(t) == [t EXCEPT !.raised = TRUE]

Buy(t, why) == [t EXCEPT !.buy_signals = @ + 1, !.reasoning = Append(@, why)]

Sell(t, why) == [t EXCEPT !.sell_signals = @ + 1, !.reasoning = Append(@, why)]

Neutral(t) == [t EXCEPT !.neutral_signals = @ + 1]

\* lines 189-197
RsiRule(t, rsi) ==
    IF rsi = None THEN Raise(t)
    ELSE IF Lt(rsi, R(30, 1)) THEN Buy(t, "RSI indicates oversold condition")
    ELSE IF Gt(rsi, R(70, 1)) THEN Sell(t, "RSI indicates overbought condition")
    ELSE Neutral(t)

\* lines 199-205
MacdRule(t, macd_diff) ==
    IF macd_diff = None THEN Raise(t)
    ELSE IF Gt(macd_diff, Zero) THEN Buy(t, "MACD shows bullish momentum")
    ELSE IF Lt(macd_diff, Zero) THEN Sell(t, "MACD shows bearish momentum")
    ELSE t

\* lines 207-213
TrendRule(t, trend) ==
    IF trend = "UPTREND" THEN Buy(t, "Price is in uptrend")
    ELSE IF trend = "DOWNTREND" THEN Sell(t, "Price is in downtrend")
    ELSE t

\* lines 215-221
SmaRule(t, price_vs_sma20) ==
    IF price_vs_sma20 = None THEN Raise(t)
    ELSE IF Gt(price_vs_sma20, R(2, 1)) THEN Buy(t, "Price is above 20-day SMA")
    ELSE IF Lt(price_vs_sma20, R(-2, 1)) THEN Sell(t, "Price is below 20-day SMA")
    ELSE t

\* lines 223-225
VolumeRule(t, volume_ratio) ==
    IF volume_ratio = None THEN Raise(t)
    ELSE IF Gt(volume_ratio, R(15, 10))
    THEN [t EXCEPT !.reasoning = Append(@, "High volume confirms price movement")]
    ELSE t

\* lines 227-233: bb_upper is read only when the first comparison is false.
BollingerRule(t, price, bb_lower, bb_upper) ==
    IF price = None \/ bb_lower = None THEN Raise(t)
    ELSE IF Lt(price, bb_lower)
    THEN Buy(t, "Price near lower Bollinger Band (potential bounce)")
    ELSE IF bb_upper = None THEN Raise(t)
    ELSE IF Gt(price, bb_upper)
    THEN Sell(t, "Price near upper Bollinger Band (potential reversal)")
    ELSE t

\* A rule runs only if no earlier rule raised.
Unless(t, next) == IF t.raised THEN t ELSE next

\* Mutant of SignalStrength: the sell tally left out of the numerator.
SignalStrengthBuyShare(buy, sell, neutral) ==
    IF buy + sell + neutral > 0
    THEN R(buy * 100, buy + sell + neutral)
    ELSE Zero

\* lines 235-238
SignalStrength(buy, sell, neutral) ==
    IF buy + sell + neutral > 0
    THEN R((buy - sell) * 100, buy + sell + neutral)
    ELSE Zero

\* lines 169-243
generate_signals(ind) ==
    LET t0 == Tally(0, 0, 0, <<>>, FALSE)
        t1 == RsiRule(t0, Get(ind, "rsi", R(50, 1)))
        t2 == Unless(t1, MacdRule(t1, Get(ind, "macd_diff", Zero)))
        t3 == Unless(t2, TrendRule(t2, Get(ind, "trend", "NEUTRAL")))
        t4 == Unless(t3, SmaRule(t3, Get(ind, "price_vs_sma20", Zero)))
        t5 == Unless(t4, VolumeRule(t4, Get(ind, "volume_ratio", R(1, 1))))
        t6 == Unless(t5, BollingerRule(t5, Get(ind, "current_price", Zero),
                                       Get(ind, "bb_lower", Zero),
                                       Get(ind, "bb_upper", Zero)))
    IN  [buy_signals     |-> t6.buy_signals,
         sell_signals    |-> t6.sell_signals,
         neutral_signals |-> t6.neutral_signals,
         signal_strength |-> IF t6.raised THEN Zero
                             ELSE SignalStrength(t6.buy_signals, t6.sell_signals,
                                                 t6.neutral_signals),
         reasoning       |-> t6.reasoning]

(***************************************************************************)
(* FundamentalAnalyzer.analyze_fundamentals                                *)
(***************************************************************************)
\* The 14 ratios the scorer reads, in the order of its blocks.
Metrics == <<"pe_ratio", "pb_ratio", "debt_to_equity", "roe", "roa", "profit_margin",
             "revenue_growth", "earnings_growth", "current_ratio", "quick_ratio",
             "peg_ratio", "operating_margin", "dividend_yield", "beta">>

MetricNames == {Metrics[i] : i \in DOMAIN Metrics}

\* One band of a metric: the points it awards and the list its note goes to
\* ("strengths", "weaknesses", or "none" when the branch appends nothing).
Band(points, list, note) == [points |-> points, list |-> list, note |-> note]

Pct(v) == Mul(v, R(100, 1))

\* lines 43-58
pe_ratio_band(v) ==
    IF Le(R(10, 1), v) /\ Le(v, R(25, 1)) THEN Band(15, "strengths", "Reasonable P/E ratio")
    ELSE IF Lt(v, R(10, 1)) THEN Band(10, "strengths", "Low P/E ratio (potentially undervalued)")
    ELSE IF Lt(R(25, 1), v) /\ Le(v, R(35, 1)) THEN Band(8, "weaknesses", "High P/E ratio")
    ELSE Band(3, "weaknesses", "Very high P/E ratio")

\* lines 60-75
pb_ratio_band(v) ==
    IF Le(R(1, 1), v) /\ Le(v, R(3, 1)) THEN Band(10, "strengths", "Reasonable P/B ratio")
    ELSE IF Lt(v, R(1, 1)) THEN Band(8, "strengths", "Low P/B ratio (potentially undervalued)")
    ELSE IF Lt(R(3, 1), v) /\ Le(v, R(5, 1)) THEN Band(5, "weaknesses", "High P/B ratio")
    ELSE Band(2, "weaknesses", "Very high P/B ratio")

\* lines 77-92
debt_to_equity_band(v) ==
    IF Lt(v, R(1, 1))
    THEN Band(15, "strengths", "Low debt-to-equity ratio (strong financial position)")
    ELSE IF Le(R(1, 1), v) /\ Lt(v, R(2, 1))
    THEN Band(12, "strengths", "Moderate debt-to-equity ratio")
    ELSE IF Le(R(2, 1), v) /\ Lt(v, R(3, 1))
    THEN Band(7, "weaknesses", "High debt-to-equity ratio")
    ELSE Band(2, "weaknesses", "Very high debt-to-equity ratio (high risk)")

\* lines 94-110
roe_band(v) ==
    IF Gt(Pct(v), R(15, 1)) THEN Band(15, "strengths", "Strong ROE")
    ELSE IF Gt(Pct(v), R(10, 1)) THEN Band(12, "strengths", "Good ROE")
    ELSE IF Gt(Pct(v), R(5, 1)) THEN Band(8, "weaknesses", "Moderate ROE")
    ELSE Band(3, "weaknesses", "Low ROE")

\* lines 112-125
roa_band(v) ==
    IF Gt(Pct(v), R(5, 1)) THEN Band(10, "strengths", "Strong ROA")
    ELSE IF Gt(Pct(v), R(3, 1)) THEN Band(8, "strengths", "Good ROA")
    ELSE Band(4, "weaknesses", "Low ROA")

\* lines 127-143
profit_margin_band(v) ==
    IF Gt(Pct(v), R(15, 1)) THEN Band(10, "strengths", "High profit margin")
    ELSE IF Gt(Pct(v), R(10, 1)) THEN Band(8, "strengths", "Good profit margin")
    ELSE IF Gt(Pct(v), R(5, 1)) THEN Band(5, "weaknesses", "Moderate profit margin")
    ELSE Band(2, "weaknesses", "Low profit margin")

\* lines 145-161
revenue_growth_band(v) ==
    IF Gt(Pct(v), R(15, 1)) THEN Band(10, "strengths", "Strong revenue growth")
    ELSE IF Gt(Pct(v), R(10, 1)) THEN Band(8, "strengths", "Good revenue growth")
    ELSE IF Gt(Pct(v), R(5, 1)) THEN Band(5, "weaknesses", "Moderate revenue growth")
    ELSE Band(2, "weaknesses", "Low/negative revenue growth")

\* lines 163-179
earnings_growth_band(v) ==
    IF Gt(Pct(v), R(20, 1)) THEN Band(10, "strengths", "Strong earnings growth")
    ELSE IF Gt(Pct(v), R(10, 1)) THEN Band(8, "strengths", "Good earnings growth")
    ELSE IF Gt(Pct(v), R(5, 1)) THEN Band(5, "weaknesses", "Moderate earnings growth")
    ELSE Band(2, "weaknesses", "Low/negative earnings growth")

\* lines 181-193
current_ratio_band(v) ==
    IF Gt(v, R(2, 1)) THEN Band(5, "strengths", "Strong liquidity (high current ratio)")
    ELSE IF Gt(v, R(1, 1)) THEN Band(4, "strengths", "Adequate liquidity")
    ELSE Band(1, "weaknesses", "Low current ratio (liquidity concerns)")

\* lines 195-208
quick_ratio_band(v) ==
    IF Gt(v, R(15, 10))
    THEN Band(5, "strengths", "Strong quick ratio (good short-term liquidity)")
    ELSE IF Gt(v, R(1, 1)) THEN Band(4, "strengths", "Adequate quick ratio")
    ELSE Band(2, "weaknesses", "Low quick ratio")

\* lines 210-225
peg_ratio_band(v) ==
    IF Lt(Zero, v) /\ Lt(v, R(1, 1))
    THEN Band(5, "strengths", "Low PEG ratio (potentially undervalued)")
    ELSE IF Le(R(1, 1), v) /\ Le(v, R(2, 1)) THEN Band(4, "strengths", "Reasonable PEG ratio")
    ELSE IF Gt(v, R(2, 1)) THEN Band(2, "weaknesses", "High PEG ratio")
    ELSE Band(1, "none", "")

\* lines 227-244
operating_margin_band(v) ==
    IF Gt(Pct(v), R(20, 1)) THEN Band(5, "strengths", "High operating margin")
    ELSE IF Gt(Pct(v), R(15, 1)) THEN Band(4, "strengths", "Good operating margin")
    ELSE IF Gt(Pct(v), R(10, 1)) THEN Band(3, "weaknesses", "Moderate operating margin")
    ELSE Band(1, "weaknesses", "Low operating margin")

\* line 250
yield_pct(v) == IF Lt(v, R(1, 1)) THEN Pct(v) ELSE v

\* lines 246-262
dividend_yield_band(v) ==
    IF Gt(yield_pct(v), R(3, 1)) THEN Band(5, "strengths", "Good dividend yield")
    ELSE IF Gt(yield_pct(v), R(15, 10)) THEN Band(4, "strengths", "Moderate dividend yield")
    ELSE IF Gt(yield_pct(v), Zero) THEN Band(2, "weaknesses", "Low dividend yield")
    ELSE Band(0, "none", "")

\* lines 264-278
beta_band(v) ==
    IF Le(R(8, 10), v) /\ Le(v, R(12, 10))
    THEN Band(5, "strengths", "Moderate volatility (beta close to market)")
    ELSE IF Lt(v, R(8, 10)) THEN Band(4, "strengths", "Low volatility (defensive stock)")
    ELSE IF Gt(v, R(15, 10)) THEN Band(2, "weaknesses", "High volatility (aggressive stock)")
    ELSE Band(3, "none", "")

\* The band a present metric falls in.
BandOf(m, v) ==
    CASE m = "pe_ratio"         -> pe_ratio_band(v)
      [] m = "pb_ratio"         -> pb_ratio_band(v)
      [] m = "debt_to_equity"   -> debt_to_equity_band(v)
      [] m = "roe"              -> roe_band(v)
      [] m = "roa"              -> roa_band(v)
      [] m = "profit_margin"    -> profit_margin_band(v)
      [] m = "revenue_growth"   -> revenue_growth_band(v)
      [] m = "earnings_growth"  -> earnings_growth_band(v)
      [] m = "current_ratio"    -> current_ratio_band(v)
      [] m = "quick_ratio"      -> quick_ratio_band(v)
      [] m = "peg_ratio"        -> peg_ratio_band(v)
      [] m = "operating_margin" -> operating_margin_band(v)
      [] m = "dividend_yield"   -> dividend_yield_band(v)
      [] m = "beta"             -> beta_band(v)

\* What each block adds to max_possible (lines 45, 62, 79, 96, 114, 129, 147, 165,
\* 183, 198, 213, 230, 249, 266).
MaxPoints(m) ==
    CASE m \in {"pe_ratio", "debt_to_equity", "roe"} -> 15
      [] m \in {"pb_ratio", "roa", "profit_margin", "revenue_growth", "earnings_growth"} -> 10
      [] OTHER -> 5

\* The value each block stores in analysis['metrics'][m]: a percentage for the
\* ratios the block multiplies by 100.
StoredValue(m, v) ==
    IF m \in {"roe", "roa", "profit_margin", "revenue_growth", "earnings_growth",
              "operating_margin"}
    THEN Pct(v)
    ELSE IF m = "dividend_yield" THEN yield_pct(v)
    ELSE v

\* The GOOD test of each block's metric record, on the value v of metric m; roe_pct
\* is the local variable of that name (line 97).  Line 125 tests roe_pct, not roa_pct.
IsGood(m, v, roe_pct) ==
    CASE m = "pe_ratio"         -> Le(R(10, 1), v) /\ Le(v, R(25, 1))
      [] m = "pb_ratio"         -> Le(R(1, 1), v) /\ Le(v, R(3, 1))
      [] m = "debt_to_equity"   -> Lt(v, R(2, 1))
      [] m = "roe"              -> Gt(Pct(v), R(10, 1))
      [] m = "roa"              -> Gt(roe_pct, R(3, 1))
      [] m = "profit_margin"    -> Gt(Pct(v), R(10, 1))
      [] m = "revenue_growth"   -> Gt(Pct(v), R(10, 1))
      [] m = "earnings_growth"  -> Gt(Pct(v), R(10, 1))
      [] m = "current_ratio"    -> Gt(v, R(1, 1))
      [] m = "quick_ratio"      -> Gt(v, R(1, 1))
      [] m = "peg_ratio"        -> Lt(Zero, v) /\ Lt(v, R(2, 1))
      [] m = "operating_margin" -> Gt(Pct(v), R(15, 1))
      [] m = "dividend_yield"   -> Gt(yield_pct(v), R(15, 10))
      [] m = "beta"             -> Le(R(8, 10), v) /\ Le(v, R(12, 10))

\* The block of metric m (an `if m is not None:` of lines 43-278) run on the
\* running totals acc.  acc.roe_pct is None while the local roe_pct is unbound;
\* reading it then (line 125, ROA present and ROE absent) raises UnboundLocalError
\* after the block's points and note were added.
Block(acc, m, v) ==
    IF acc.raised \/ v = None THEN acc
    ELSE
    LET band    == BandOf(m, v)
        roe_pct == IF m = "roe" THEN Pct(v) ELSE acc.roe_pct
        noted   == [acc EXCEPT
                      !.score        = @ + band.points,
                      !.max_possible = @ + MaxPoints(m),
                      !.strengths    = IF band.list = "strengths"
                                       THEN Append(@, band.note) ELSE @,
                      !.weaknesses   = IF band.list = "weaknesses"
                                       THEN Append(@, band.note) ELSE @,
                      !.roe_pct      = roe_pct]
    IN  IF m = "roa" /\ roe_pct = None
        THEN [noted EXCEPT !.raised = TRUE]
        ELSE [noted EXCEPT !.metrics = @ @@ (m :> [value  |-> StoredValue(m, v),
                                                  status |-> IF IsGood(m, v, roe_pct)
                                                             THEN "GOOD" ELSE "CAUTION"])]

\* The blocks of Metrics[1..k], in order.
RECURSIVE Blocks(_, _)
Blocks(fd, k) ==
    IF k = 0
    THEN [score |-> 0, max_possible |-> 0, strengths |-> <<>>, weaknesses |-> <<>>,
          metrics |-> <<>>, roe_pct |-> None, raised |-> FALSE]
    ELSE Block(Blocks(fd, k - 1), Metrics[k], Get(fd, Metrics[k], None))

\* lines 280-284
FinalScore(score, max_possible) ==
    IF max_possible > 0 THEN R(score * 100, max_possible) ELSE R(50, 1)

\* lines 286-292
Assessment(score) ==
    IF Ge(score, R(70, 1)) THEN "STRONG"
    ELSE IF Ge(score, R(50, 1)) THEN "MODERATE"
    ELSE "WEAK"

\* lines 17-298
analyze_fundamentals(fd) ==
    LET acc == Blocks(fd, Len(Metrics))
        score == FinalScore(acc.score, acc.max_possible)
    IN  [score              |-> IF acc.raised THEN Zero ELSE score,
         max_score          |-> R(100, 1),
         metrics            |-> acc.metrics,
         strengths          |-> acc.strengths,
         weaknesses         |-> acc.weaknesses,
         overall_assessment |-> IF acc.raised THEN "ERROR" ELSE Assessment(score)]

(***************************************************************************)
(* SentimentAnalyzer.analyze_news_collection                               *)
(***************************************************************************)
\* The keys of the dict NewsFetcher.get_all_news builds (news_fetcher.py 167-171),
\* in its iteration order.
Categories == <<"global_news", "indian_market_news", "company_news">>

\* lines 131-142
_classify_sentiment(score) ==
    IF Ge(score, R(5, 10)) THEN "VERY_POSITIVE"
    ELSE IF Ge(score, R(1, 10)) THEN "POSITIVE"
    ELSE IF Ge(score, R(-1, 10)) THEN "NEUTRAL"
    ELSE IF Ge(score, R(-5, 10)) THEN "NEGATIVE"
    ELSE "VERY_NEGATIVE"

\* lines 50-73.  An article is kept as the two polarity estimates the libraries
\* give for its text (VADER compound, TextBlob polarity).
analyze_article(article) ==
    LET combined_score == Div(Add(article.vader, article.textblob), R(2, 1))
    IN  [vader_score    |-> article.vader,
         textblob_score |-> article.textblob,
         combined_score |-> combined_score,
         sentiment      |-> _classify_sentiment(combined_score)]

\* sum(xs) of a list of floats
RECURSIVE Sum(_)
Sum(xs) == IF xs = <<>> THEN Zero ELSE Add(xs[1], Sum(Tail(xs)))

\* lines 93-108: the entry of a category that has articles.
CategoryResult(articles) ==
    LET analyzed_articles == [i \in DOMAIN articles |-> analyze_article(articles[i])]
        type_sentiments   == [i \in DOMAIN articles |-> analyzed_articles[i].combined_score]
        avg_sentiment     == Div(Sum(type_sentiments), R(Len(type_sentiments), 1))
    IN  [articles          |-> analyzed_articles,
         average_sentiment |-> avg_sentiment,
         count             |-> Len(analyzed_articles),
         sentiment_label   |-> _classify_sentiment(avg_sentiment)]

\* lines 78-80: the entry a category starts with, and keeps when it has no article.
EmptyCategory == [articles |-> <<>>, average_sentiment |-> Zero, count |-> 0]

\* Mutant of Totals: every category with articles weighs the same.
RECURSIVE TotalsUnweighted(_, _)
TotalsUnweighted(entries, k) ==
    IF k = 0 THEN [total_sentiment |-> Zero, total_count |-> 0]
    ELSE LET before == TotalsUnweighted(entries, k - 1)
             entry  == entries[k]
         IN  IF entry.count = 0 THEN before
             ELSE [total_sentiment |-> Add(before.total_sentiment, entry.average_sentiment),
                   total_count     |-> before.total_count + 1]

\* Mutant of Totals: total_count counts the categories, not their articles.
RECURSIVE TotalsCountingCategories(_, _)
TotalsCountingCategories(entries, k) ==
    IF k = 0 THEN [total_sentiment |-> Zero, total_count |-> 0]
    ELSE LET before == TotalsCountingCategories(entries, k - 1)
             entry  == entries[k]
         IN  IF entry.count = 0 THEN before
             ELSE [total_sentiment |-> Add(before.total_sentiment,
                                           Mul(entry.average_sentiment,
                                               R(entry.count, 1))),
                   total_count     |-> before.total_count + 1]

\* lines 86-111: the running totals after the categories Categories[1..k], whose
\* entries are entries[1..k]; a category without articles is skipped (line 90).
RECURSIVE Totals(_, _)
Totals(entries, k) ==
    IF k = 0 THEN [total_sentiment |-> Zero, total_count |-> 0]
    ELSE LET before == Totals(entries, k - 1)
             entry  == entries[k]
         IN  IF entry.count = 0 THEN before
             ELSE [total_sentiment |-> Add(before.total_sentiment,
                                           Mul(entry.average_sentiment,
                                               R(entry.count, 1))),
                   total_count     |-> before.total_count + entry.count]

\* The number of the values xs[i] in each bucket of lines 119-123.
Buckets(xs) ==
    [very_positive |-> Cardinality({i \in DOMAIN xs : Gt(xs[i], R(5, 10))}),
     positive      |-> Cardinality({i \in DOMAIN xs : Lt(R(1, 10), xs[i]) /\ Le(xs[i], R(5, 10))}),
     neutral       |-> Cardinality({i \in DOMAIN xs : Le(R(-1, 10), xs[i]) /\ Le(xs[i], R(1, 10))}),
     negative      |-> Cardinality({i \in DOMAIN xs : Le(R(-5, 10), xs[i]) /\ Lt(xs[i], R(-1, 10))}),
     very_negative |-> Cardinality({i \in DOMAIN xs : Lt(xs[i], R(-5, 10))})]

\* lines 117-124.  The generators run over results.values(): the three category
\* entries and the {} that 'sentiment_breakdown' still holds (line 82), a dict
\* whose .get('average_sentiment', 0) is 0; the float and the label are skipped
\* by isinstance(r, dict).
Breakdown(entries) ==
    LET averages == [i \in DOMAIN entries |-> entries[i].average_sentiment] \o <<Zero>>
    IN  CHOOSE b \in {Buckets(xs) : xs \in {averages}} : TRUE

\* lines 89-108: the entry of every category.
Entries(nd) ==
    [k \in DOMAIN Categories |->
        IF Get(nd, Categories[k], <<>>) = <<>> THEN EmptyCategory
        ELSE CategoryResult(nd[Categories[k]])]

\* lines 113-124, on the entries the loop has built.
Collect(entries) ==
    LET totals  == Totals(entries, Len(Categories))
        overall == IF totals.total_count > 0
                   THEN Div(totals.total_sentiment, R(totals.total_count, 1))
                   ELSE Zero
        label   == IF totals.total_count > 0
                   THEN ("overall_sentiment_label" :> _classify_sentiment(overall))
                   ELSE <<>>
    IN  [global_news         |-> entries[1],
         indian_market_news  |-> entries[2],
         company_news        |-> entries[3],
         overall_sentiment   |-> overall,
         sentiment_breakdown |-> Breakdown(entries)] @@ label

\* lines 75-129
analyze_news_collection(nd) ==
    CHOOSE r \in {Collect(entries) : entries \in {Entries(nd)}} : TRUE

(***************************************************************************)
(* Inputs                                                                  *)
(***************************************************************************)
\* The dicts with key `key` absent or bound to one of `values`.
Optional(key, values) == {<<>>} \cup {key :> v : v \in values}

\* All lists of at most n elements of S.
SeqsUpTo(S, n) == UNION {[1..k -> S] : k \in 0..n}

\* Longest time horizon tried, in weeks.
MaxWeeks == 2

\* Number of value profiles tried with every subset of present ratios.
NumProfiles == 2

\* Longest list of articles per category, besides the full feeds.
MaxArticles == 2

\* max_per_source of the call of get_all_news: the length of a full feed.
MaxPerSource == 10

NotYet ==
    /\ recommendation = NotCalled
    /\ signals = NotCalled
    /\ analysis = NotCalled
    /\ results = NotCalled
    /\ pc = 0
    /\ calls = <<>>
    /\ stock_data = None
    /\ crew_results = NotCalled

\* ---- generate_recommendation ------------------------------------------
\* signal_strength values: the extremes, the boundaries of the decision
\* (75 * 0.40 = 30, 74.9975 * 0.40 = 29.999) and the scenario value 60.
SignalStrengths ==
    {R(-100, 1), R(-75, 1), Zero, R(60, 1), R(29999, 400), R(75, 1), R(100, 1)}

Reasons == <<"RSI indicates oversold condition", "MACD shows bullish momentum",
             "Price is in uptrend", "Price is above 20-day SMA">>

\* (indicators, reasoning) of the technical analysis: no ATR; ATR 5% (the threshold
\* of line 162) and 6% of the price; ATR with a zero current_price.
TechnicalContexts ==
    { [indicators |-> <<>>, reasoning |-> <<>>],
      [indicators |-> [atr |-> R(5, 1), current_price |-> R(100, 1)], reasoning |-> Reasons],
      [indicators |-> [atr |-> R(6, 1), current_price |-> R(100, 1)],
       reasoning |-> SubSeq(Reasons, 1, 2)],
      [indicators |-> [atr |-> R(6, 1), current_price |-> Zero], reasoning |-> Reasons] }

TechnicalAnalyses ==
    { [indicators |-> c.indicators,
       signals    |-> [signal_strength |-> s, reasoning |-> c.reasoning]] :
      c \in TechnicalContexts, s \in SignalStrengths }

\* What analyze_fundamentals can return: a score with its assessment, or the
\* ERROR result, whose score is still 0.
FundamentalAnalyses ==
    { [score |-> s, overall_assessment |-> Assessment(s)] :
      s \in {Zero, R(40, 1), R(50, 1), R(80, 1), R(100, 1)} }
    \cup { [score |-> Zero, overall_assessment |-> "ERROR"] }

\* What analyze_news_collection can return: no article at all (0.0, no label), or
\* an overall sentiment with its label.
SentimentAnalyses ==
    { [overall_sentiment |-> Zero] }
    \cup { [overall_sentiment |-> s, overall_sentiment_label |-> _classify_sentiment(s)] :
           s \in {R(-1, 1), R(3, 10), R(5, 10), R(6, 10), R(1, 1)} }

Frame(len, has_close, std) == [len |-> len, has_close |-> has_close, std |-> std]

\* None, an empty frame, 20 bars, 21 bars with a daily deviation of 3% (the
\* threshold of line 178), 60 bars with one of 5%, and 60 bars without a Close
\* column.
HistoricalData ==
    { None, Frame(0, TRUE, None), Frame(20, TRUE, R(1, 100)), Frame(21, TRUE, R(3, 100)),
      Frame(60, TRUE, R(5, 100)), Frame(60, FALSE, None) }

\* The horizons tried: the first weeks, and a year.
Horizons == (1..MaxWeeks) \cup {WeeksPerYear}

Prices == {R(100, 1), R(2500, 1)}

InitPredictor ==
    /\ current_price \in Prices
    /\ time_horizon_weeks \in Horizons
    /\ technical_analysis \in TechnicalAnalyses
    /\ fundamental_analysis \in FundamentalAnalyses
    /\ sentiment_analysis \in SentimentAnalyses
    /\ historical_data \in HistoricalData
    /\ forced_exception \in Steps \cup {"none"}
    /\ indicators = <<>>
    /\ fundamental_data = <<>>
    /\ news_dict = <<>>
    /\ NotYet

\* crew_config.py 114-122: the call.
GenerateRecommendation ==
    /\ recommendation = NotCalled
    /\ recommendation' = generate_recommendation(current_price, time_horizon_weeks,
                            technical_analysis, fundamental_analysis, sentiment_analysis,
                            historical_data, forced_exception)
    /\ UNCHANGED <<current_price, time_horizon_weeks, technical_analysis,
                   fundamental_analysis, sentiment_analysis, historical_data,
                   forced_exception, technical_vars, fundamental_vars, sentiment_vars,
                   crew_vars>>

SpecPredictor == InitPredictor /\ [][GenerateRecommendation]_vars

\* ---- generate_signals --------------------------------------------------
\* calculate_indicators stores None for an indicator it fails to compute
\* (technical_analyzer.py 76, 85-87), so a key may be absent, None or a number.
IndicatorSets ==
    { a @@ b @@ c @@ d @@ e @@ f :
        a \in Optional("rsi", {None, R(20, 1), R(30, 1), R(50, 1), R(70, 1), R(80, 1)}),
        b \in Optional("macd_diff", {None, R(-1, 2), Zero, R(1, 2)}),
        c \in Optional("trend", {"UPTREND", "DOWNTREND", "SIDEWAYS"}),
        d \in Optional("price_vs_sma20", {None, R(-3, 1), R(-2, 1), R(2, 1), R(3, 1)}),
        e \in Optional("volume_ratio", {R(2, 1)}),
        f \in { <<>>,
                [current_price |-> R(100, 1), bb_lower |-> R(90, 1), bb_upper |-> R(110, 1)],
                [current_price |-> R(85, 1), bb_lower |-> R(90, 1), bb_upper |-> R(110, 1)],
                [current_price |-> R(115, 1), bb_lower |-> R(90, 1), bb_upper |-> R(110, 1)],
                [current_price |-> R(100, 1), bb_lower |-> R(90, 1), bb_upper |-> None] } }

InitSignals ==
    /\ indicators \in IndicatorSets
    /\ current_price = R(100, 1)
    /\ time_horizon_weeks = 1
    /\ technical_analysis = <<>>
    /\ fundamental_analysis = <<>>
    /\ sentiment_analysis = <<>>
    /\ historical_data = None
    /\ forced_exception = "none"
    /\ fundamental_data = <<>>
    /\ news_dict = <<>>
    /\ NotYet

\* crew_config.py 94: the call.
GenerateSignals ==
    /\ signals = NotCalled
    /\ signals' = generate_signals(indicators)
    /\ UNCHANGED <<indicators, predictor_vars, fundamental_vars, sentiment_vars, crew_vars>>

SpecSignals == InitSignals /\ [][GenerateSignals]_vars

\* ---- analyze_fundamentals ----------------------------------------------
\* Values of each ratio as the fetcher reports them (roe, roa, margins and growth
\* as fractions), one in every band and on every band boundary.
BandValues ==
  [m \in MetricNames |->
    CASE m = "pe_ratio"         -> <<R(10, 1), R(40, 1), R(5, 1), R(25, 1), R(30, 1), R(35, 1)>>
      [] m = "pb_ratio"         -> <<R(1, 1), R(6, 1), R(1, 2), R(3, 1), R(4, 1), R(5, 1)>>
      [] m = "debt_to_equity"   -> <<R(1, 2), R(3, 1), R(1, 1), R(2, 1), R(5, 1)>>
      [] m = "roe"              -> <<R(20, 100), R(2, 100), R(15, 100), R(12, 100), R(10, 100),
                                     R(7, 100), R(5, 100)>>
      [] m = "roa"              -> <<R(6, 100), R(1, 100), R(5, 100), R(4, 100), R(3, 100)>>
      [] m = "profit_margin"    -> <<R(20, 100), R(2, 100), R(15, 100), R(12, 100), R(10, 100),
                                     R(7, 100), R(5, 100)>>
      [] m = "revenue_growth"   -> <<R(20, 100), R(-5, 100), R(15, 100), R(12, 100), R(10, 100),
                                     R(7, 100), R(5, 100)>>
      [] m = "earnings_growth"  -> <<R(25, 100), R(-10, 100), R(20, 100), R(12, 100),
                                     R(10, 100), R(7, 100), R(5, 100)>>
      [] m = "current_ratio"    -> <<R(3, 1), R(1, 2), R(2, 1), R(3, 2), R(1, 1)>>
      [] m = "quick_ratio"      -> <<R(2, 1), R(1, 2), R(3, 2), R(6, 5), R(1, 1)>>
      [] m = "peg_ratio"        -> <<R(1, 2), R(3, 1), R(1, 1), R(2, 1), Zero, R(-1, 1)>>
      [] m = "operating_margin" -> <<R(25, 100), R(5, 100), R(20, 100), R(17, 100), R(15, 100),
                                     R(12, 100), R(10, 100)>>
      [] m = "dividend_yield"   -> <<R(4, 100), Zero, R(3, 100), R(2, 100), R(15, 1000),
                                     R(1, 100), R(2, 1), R(5, 1)>>
      [] m = "beta"             -> <<R(1, 1), R(2, 1), R(8, 10), R(12, 10), R(1, 2), R(13, 10),
                                     R(15, 10)>>]

\* The k-th value of a ratio, going round its list.
ProfileValue(m, k) == BandValues[m][((k - 1) % Len(BandValues[m])) + 1]

\* The dict get_fundamental_data builds (stock_fetcher.py 87-107): every key, None
\* for a ratio that is not reported.  Every subset of the ratios is present, with
\* the values of one profile; or a single ratio is present, with any of its values;
\* or ROE and ROA are, with any pair of their values.
FundamentalInputs(profiles) ==
    { [m \in MetricNames |-> IF m \in present THEN ProfileValue(m, k) ELSE None] :
      present \in SUBSET MetricNames, k \in 1..profiles }
    \cup
    UNION { { [m \in MetricNames |-> IF m = one THEN BandValues[one][i] ELSE None] :
              i \in DOMAIN BandValues[one] } : one \in MetricNames }
    \cup
    { [m \in MetricNames |-> IF m = "roe" THEN BandValues["roe"][i]
                             ELSE IF m = "roa" THEN BandValues["roa"][j]
                             ELSE None] :
      i \in DOMAIN BandValues["roe"], j \in DOMAIN BandValues["roa"] }

InitFundamentals ==
    /\ fundamental_data \in FundamentalInputs(NumProfiles)
    /\ current_price = R(100, 1)
    /\ time_horizon_weeks = 1
    /\ technical_analysis = <<>>
    /\ fundamental_analysis = <<>>
    /\ sentiment_analysis = <<>>
    /\ historical_data = None
    /\ forced_exception = "none"
    /\ indicators = <<>>
    /\ news_dict = <<>>
    /\ NotYet

\* crew_config.py 101: the call.
AnalyzeFundamentals ==
    /\ analysis = NotCalled
    /\ analysis' = analyze_fundamentals(fundamental_data)
    /\ UNCHANGED <<fundamental_data, predictor_vars, technical_vars, sentiment_vars,
                   crew_vars>>

SpecFundamentals == InitFundamentals /\ [][AnalyzeFundamentals]_vars

\* ---- analyze_news_collection -------------------------------------------
Article(vader, textblob) == [vader |-> vader, textblob |-> textblob]

\* Articles whose combined scores are 0.6, 0.2 and -0.6.
Articles == {Article(R(8, 10), R(4, 10)), Article(R(3, 10), R(1, 10)),
             Article(R(-7, 10), R(-5, 10))}

\* What a category can hold: a short list of any articles, or a full feed of
\* MaxPerSource copies of one article.
Feeds(longest) ==
    SeqsUpTo(Articles, longest) \cup {[i \in 1..MaxPerSource |-> a] : a \in Articles}

NewsCollections(longest) ==
    { [global_news |-> g, indian_market_news |-> i, company_news |-> c] :
      g \in Feeds(longest), i \in Feeds(longest), c \in Feeds(longest) }

InitSentiment ==
    /\ news_dict \in NewsCollections(MaxArticles)
    /\ current_price = R(100, 1)
    /\ time_horizon_weeks = 1
    /\ technical_analysis = <<>>
    /\ fundamental_analysis = <<>>
    /\ sentiment_analysis = <<>>
    /\ historical_data = None
    /\ forced_exception = "none"
    /\ indicators = <<>>
    /\ fundamental_data = <<>>
    /\ NotYet

\* crew_config.py 105: the call.
AnalyzeNewsCollection ==
    /\ results = NotCalled
    /\ results' = analyze_news_collection(news_dict)
    /\ UNCHANGED <<news_dict, predictor_vars, technical_vars, fundamental_vars, crew_vars>>

SpecSentiment == InitSentiment /\ [][AnalyzeNewsCollection]_vars

(***************************************************************************)
(* Properties of generate_recommendation (SpecPredictor)                   *)
(***************************************************************************)
Returned == recommendation # NotCalled

Failed == "error" \in DOMAIN recommendation

InSignalStrength == technical_analysis.signals.signal_strength

InFundamentalScore == fundamental_analysis.score

InSentiment == sentiment_analysis.overall_sentiment

\* The blend of section 4.4 step 1, written out on the three inputs:
\* signal_strength * 0.40 + (score - 50) * 0.70 * 0.35 + (sentiment * 100) * 0.25.
Blend ==
    Add(Add(Mul(InSignalStrength, R(2, 5)),
            Mul(Sub(InFundamentalScore, R(50, 1)), R(49, 200))),
        Mul(InSentiment, R(25, 1)))

\* C1: whenever generate_recommendation returns without an error, the action is BUY
\* exactly when the weighted score is >= 30, SELL exactly when it is <= -30 and HOLD
\* otherwise; a score of exactly 30 gives BUY and 29.999 gives HOLD.
C1_ActionThresholds ==
    (Returned /\ ~Failed) =>
        /\ recommendation.action = "BUY"  <=> Ge(Blend, R(30, 1))
        /\ recommendation.action = "SELL" <=> Le(Blend, R(-30, 1))
        /\ recommendation.action = "HOLD" <=> (Lt(Blend, R(30, 1)) /\ Gt(Blend, R(-30, 1)))
        /\ Blend = R(29999, 1000) => recommendation.action = "HOLD"

\* A returned BUY whose weighted score is exactly 30.
C1_Witness ==
    Returned /\ ~Failed /\ Blend = R(30, 1) /\ recommendation.action = "BUY"

\* The scenario of C2: signal_strength 60, fundamental score 80, sentiment 0.3.
Scenario ==
    /\ InSignalStrength = R(60, 1)
    /\ InFundamentalScore = R(80, 1)
    /\ InSentiment = R(3, 10)

\* C2: the weighted score a returned recommendation reports is the blend of its three
\* inputs (to the two decimals the field keeps), its three contributions are the three
\* terms, and the scenario gives 38.85, BUY and confidence 85.0.
C2_WeightedScore ==
    (Returned /\ ~Failed) =>
        /\ recommendation.weighted_score = Round(Blend, 100)
        /\ recommendation.score_breakdown =
              [technical_contribution   |-> Round(Mul(InSignalStrength, R(2, 5)), 100),
               fundamental_contribution |-> Round(Mul(Sub(InFundamentalScore, R(50, 1)),
                                                      R(49, 200)), 100),
               sentiment_contribution   |-> Round(Mul(InSentiment,  R(25, 1)), 100)]
        /\ Scenario => /\ Blend = R(3885, 100)
                       /\ recommendation.weighted_score = R(3885, 100)
                       /\ recommendation.action = "BUY"
                       /\ recommendation.confidence = R(85, 1)

\* The scenario has been run and has returned a recommendation.
C2_Witness ==
    Returned /\ ~Failed /\ Scenario /\ recommendation.weighted_score = R(3885, 100)

\* min(95, 50 + |weighted_score| * 0.9)
TradeConfidence == RMin(R(95, 1), Add(R(50, 1), Mul(RAbs(Blend), R(9, 10))))

\* max(30, 50 - |weighted_score| * 0.5)
HoldConfidence == RMax(R(30, 1), Sub(R(50, 1), Mul(RAbs(Blend), R(1, 2))))

ConfidenceInRange ==
    Le(Zero, recommendation.confidence) /\ Le(recommendation.confidence, R(100, 1))

\* C3 as stated: in every returned Recommendation the confidence is in [0,100] and
\* equals min(95, 50+|w|*0.9) for BUY and SELL, max(30, 50-|w|*0.5) for HOLD.
C3_Original ==
    Returned =>
        /\ ConfidenceInRange
        /\ recommendation.action \in {"BUY", "SELL"} =>
              recommendation.confidence = TradeConfidence
        /\ recommendation.action = "HOLD" => recommendation.confidence = HoldConfidence

\* C3 amended: the confidence is in [0,100]; without an error field it is the formula
\* of the action rounded to one decimal; the error Recommendation is HOLD with
\* confidence 0.
C3_ConfidenceRounded ==
    Returned =>
        /\ ConfidenceInRange
        /\ ~Failed /\ recommendation.action \in {"BUY", "SELL"} =>
              recommendation.confidence = Round(TradeConfidence, 10)
        /\ ~Failed /\ recommendation.action = "HOLD" =>
              recommendation.confidence = Round(HoldConfidence, 10)
        /\ Failed => recommendation.action = "HOLD" /\ recommendation.confidence = Zero

\* A SELL whose confidence formula gives 79.385, reported as 79.4.
C3_Witness ==
    /\ Returned /\ ~Failed
    /\ recommendation.action = "SELL"
    /\ TradeConfidence = R(79385, 1000)
    /\ recommendation.confidence = R(794, 10)

IsErrorRecommendation ==
    /\ DOMAIN recommendation = {"action", "confidence", "error"}
    /\ recommendation.action = "HOLD"
    /\ recommendation.confidence = Zero
    /\ recommendation.error # ""

\* C4 as stated: an exception forced in any step of the synthesis gives HOLD with
\* confidence 0 and an error field.
C4_Original ==
    (Returned /\ forced_exception \in Steps) => IsErrorRecommendation

\* C4 amended: an exception forced in the blend, the reasoning text or the position
\* sizing gives HOLD, confidence 0 and an error field; one forced in the price-target
\* calculation is caught there and gives the default targets (price * 1.05 and
\* price * 0.97) in a recommendation without error field, one forced in the risk
\* assessment gives risk MEDIUM in a recommendation without error field; the call
\* always returns a Recommendation.
C4_ForcedException ==
    Returned =>
        /\ {"action", "confidence"} \subseteq DOMAIN recommendation
        /\ forced_exception \in {"blend", "reasoning", "position_size"} =>
              IsErrorRecommendation
        /\ forced_exception = "price_targets" =>
              /\ ~Failed
              /\ recommendation.target_price = Round(Mul(current_price, R(105, 100)), 100)
              /\ recommendation.stop_loss = Round(Mul(current_price, R(97, 100)), 100)
        /\ forced_exception = "risk" => ~Failed /\ recommendation.risk_level = "MEDIUM"

\* An exception forced in the reasoning step has produced the error Recommendation.
C4_Witness ==
    Returned /\ forced_exception = "reasoning" /\ IsErrorRecommendation

(***************************************************************************)
(* Properties of analyze_fundamentals (SpecFundamentals)                   *)
(***************************************************************************)
Analyzed == analysis # NotCalled

\* The ratios present in the input.
Present == {m \in MetricNames : fundamental_data[m] # None}

\* The sum of f over the present ratios among Metrics[1..k].
RECURSIVE SumPresent(_, _)
SumPresent(f(_), k) ==
    IF k = 0 THEN 0
    ELSE SumPresent(f, k - 1) + (IF Metrics[k] \in Present THEN f(Metrics[k]) ELSE 0)

PointsAwarded(m) == BandOf(m, fundamental_data[m]).points

\* C5 as stated: with at least one ratio present, the score is 100 times the points
\* awarded to the present ratios over the sum of their maxima, and lies in [0,100].
C5_Original ==
    (Analyzed /\ Present # {}) =>
        /\ analysis.score = R(100 * SumPresent(PointsAwarded, Len(Metrics)),
                              SumPresent(MaxPoints, Len(Metrics)))
        /\ Le(Zero, analysis.score) /\ Le(analysis.score, R(100, 1))

\* The line-125 failure: ROA is present and ROE is not.
RoaWithoutRoe == "roa" \in Present /\ "roe" \notin Present

\* C6 as stated: with no ratio present the score is 50.0 and the assessment NEUTRAL.
C6_Original ==
    (Analyzed /\ Present = {}) =>
        analysis.score = R(50, 1) /\ analysis.overall_assessment = "NEUTRAL"

\* C7 as stated: whatever subset of the ratios is absent, the assessment is not ERROR.
C7_Original ==
    Analyzed => analysis.overall_assessment # "ERROR"

(***************************************************************************)
(* Properties of analyze_news_collection (SpecSentiment)                   *)
(***************************************************************************)
Collected == results # NotCalled

CategoryNames == {Categories[k] : k \in DOMAIN Categories}

\* The mean of the combined scores (vader + textblob) / 2 of a non-empty list.
MeanScore(articles) ==
    Div(Sum([i \in DOMAIN articles |->
                Div(Add(articles[i].vader, articles[i].textblob), R(2, 1))]),
        R(Len(articles), 1))

\* count * average of a category, 0 for one without articles.
Weighted(c) ==
    IF news_dict[c] = <<>> THEN Zero
    ELSE Mul(R(Len(news_dict[c]), 1), MeanScore(news_dict[c]))

ArticleCount ==
    Len(news_dict.global_news) + Len(news_dict.indian_market_news)
        + Len(news_dict.company_news)

\* The example of C8: no global news, ten Indian-market articles of score 0.6, ten
\* company articles of score 0.2.
SentimentExample ==
    /\ news_dict.global_news = <<>>
    /\ news_dict.indian_market_news = [i \in 1..10 |-> Article(R(8, 10), R(4, 10))]
    /\ news_dict.company_news = [i \in 1..10 |-> Article(R(3, 10), R(1, 10))]

\* C8: a category without articles keeps count 0 and average 0.0; one with articles
\* reports their number and the mean of their scores; overall_sentiment is the mean
\* of the category averages weighted by the article counts, over the categories
\* that have articles; the example gives 0.4.
C8_CountWeightedMean ==
    Collected =>
        /\ \A c \in CategoryNames :
              IF news_dict[c] = <<>>
              THEN results[c] = EmptyCategory
              ELSE /\ results[c].count = Len(news_dict[c])
                   /\ results[c].average_sentiment = MeanScore(news_dict[c])
        /\ ArticleCount > 0 =>
              results.overall_sentiment =
                 Div(Add(Add(Weighted("global_news"), Weighted("indian_market_news")),
                         Weighted("company_news")),
                     R(ArticleCount, 1))
        /\ SentimentExample => results.overall_sentiment = R(4, 10)

\* The example has been analysed: the empty category is reported with count 0 and
\* the overall sentiment is 0.4.
C8_Witness ==
    /\ Collected /\ SentimentExample
    /\ results.global_news.count = 0
    /\ results.overall_sentiment = R(4, 10)

(***************************************************************************)
(* Properties of generate_signals (SpecSignals)                            *)
(***************************************************************************)
Signalled == signals # NotCalled

TotalSignals == signals.buy_signals + signals.sell_signals + signals.neutral_signals

\* C9: the signal strength returned is in [-100, 100], and is 0 whenever the buy and
\* sell tallies are equal.
C9_StrengthBounded ==
    Signalled =>
        /\ Le(R(-100, 1), signals.signal_strength)
        /\ Le(signals.signal_strength, R(100, 1))
        /\ signals.buy_signals = signals.sell_signals => signals.signal_strength = Zero

\* Two buy and two sell signals were tallied without error, and the strength is 0.
C9_Witness ==
    /\ Signalled
    /\ signals.buy_signals = 2 /\ signals.sell_signals = 2
    /\ signals.signal_strength = Zero

\* C10 as stated: every value returned, also after a caught error, has
\* signal_strength = (buy - sell) / (buy + sell + neutral) * 100 when the total is
\* positive, and 0 otherwise.
C10_Original ==
    Signalled =>
        signals.signal_strength =
            IF TotalSignals > 0
            THEN R((signals.buy_signals - signals.sell_signals) * 100, TotalSignals)
            ELSE Zero

\* The indicator set with its None values taken out, so that every read of such an
\* indicator gets the default of lines 181-188.
WithoutNone(ind) ==
    [k \in {key \in DOMAIN ind : key = "trend" \/ ind[key] # None} |-> ind[k]]

\* C11 as stated: an indicator that is missing, its key absent or its value None, is
\* read as its default and every rule is still evaluated: the signals are those of
\* the same indicator set without the None values.
C11_Original ==
    Signalled => signals = generate_signals(WithoutNone(indicators))

(***************************************************************************)
(* Properties of the price targets and the risk level (SpecPredictor)      *)
(***************************************************************************)
\* historical_data is a DataFrame with a Close column, and no exception is forced in
\* the price-target calculation: the calculation runs to its return of line 146.
TargetsComputed ==
    /\ Returned /\ ~Failed
    /\ forced_exception # "price_targets"
    /\ IsFrame(historical_data) /\ historical_data.has_close

\* Standard deviation of the daily returns * sqrt(252).
AnnualizedVolatility == Mul(historical_data.std, Sqrt252)

\* current_price * (1 + (weighted_score/100) * annualized_volatility * (weeks/52) * 2)
VolatilityTarget ==
    Mul(current_price,
        Add(R(1, 1),
            Mul(Mul(Mul(Div(Blend, R(100, 1)), AnnualizedVolatility),
                    R(time_horizon_weeks, 52)),
                R(2, 1))))

Times(percent) == Round(Mul(current_price, R(percent, 100)), 100)

\* C12: with at least 21 bars the target is the volatility-scaled one and the stop is
\* price * 0.97 for a positive weighted score and price * 1.03 otherwise; with fewer
\* bars target and stop are price * 1.05 and * 0.97 for a positive score, * 0.95 and
\* * 1.03 for a negative one, and the price and price * 0.98 for a score of 0 (all as
\* the recommendation reports them, to two decimals).
C12_PriceTargets ==
    TargetsComputed =>
        IF historical_data.len >= 21
        THEN /\ recommendation.target_price = Round(VolatilityTarget, 100)
             /\ recommendation.stop_loss =
                   IF Gt(Blend, Zero) THEN Times(97) ELSE Times(103)
        ELSE /\ Gt(Blend, Zero) =>
                   /\ recommendation.target_price = Times(105)
                   /\ recommendation.stop_loss = Times(97)
             /\ Lt(Blend, Zero) =>
                   /\ recommendation.target_price = Times(95)
                   /\ recommendation.stop_loss = Times(103)
             /\ Blend = Zero =>
                   /\ recommendation.target_price = Times(100)
                   /\ recommendation.stop_loss = Times(98)

\* With exactly 21 bars and a negative score the target is the volatility-scaled one,
\* below the price, and the stop is 3% above it.
C12_Witness ==
    /\ TargetsComputed
    /\ historical_data.len = 21
    /\ Lt(Blend, Zero)
    /\ recommendation.target_price = Round(VolatilityTarget, 100)
    /\ Lt(recommendation.target_price, current_price)
    /\ recommendation.stop_loss = Times(103)

\* C13 as stated: a Recommendation returned without an error field has a positive
\* target price and a positive stop-loss.
C13_Original ==
    (Returned /\ ~Failed) =>
        /\ Gt(recommendation.target_price, Zero)
        /\ Gt(recommendation.stop_loss, Zero)

AtrValue == Get(technical_analysis.indicators, "atr", None)

PriceValue == Get(technical_analysis.indicators, "current_price", R(1, 1))

\* The ATR is set (not None, not 0), so the ATR / price ratio is computed.
AtrSet == AtrValue # None /\ AtrValue # Zero

\* An exception arises during the risk assessment: one is forced, the ATR is set
\* while current_price is 0 (ZeroDivisionError), historical_data is None
\* (AttributeError), or it has bars but no Close series (KeyError).
AssessmentRaises ==
    \/ forced_exception = "risk"
    \/ AtrSet /\ PriceValue = Zero
    \/ historical_data = None
    \/ historical_data # None /\ historical_data.len > 0 /\ ~historical_data.has_close

HighAtrRatio == AtrSet /\ Gt(Div(AtrValue, PriceValue), R(5, 100))

WeakFundamentals == Lt(InFundamentalScore, R(40, 1))

ExtremeSentiment == Gt(RAbs(InSentiment), R(1, 2))

HighDailyVolatility ==
    /\ historical_data.len > 0
    /\ historical_data.std # None
    /\ Gt(historical_data.std, R(3, 100))

Count(factor) == IF factor THEN 1 ELSE 0

RiskFactorCount ==
    Count(HighAtrRatio) + Count(WeakFundamentals) + Count(ExtremeSentiment)
        + Count(HighDailyVolatility)

\* C14: an assessment that runs to completion returns HIGH for three or more risk
\* factors, MEDIUM for exactly two and LOW for fewer; a high ATR ratio, a fundamental
\* score below 40 and an extreme sentiment give HIGH also without the
\* historical-volatility factor.
C14_RiskLevels ==
    (Returned /\ ~Failed /\ ~AssessmentRaises) =>
        /\ RiskFactorCount >= 3 <=> recommendation.risk_level = "HIGH"
        /\ RiskFactorCount = 2  <=> recommendation.risk_level = "MEDIUM"
        /\ RiskFactorCount < 2  <=> recommendation.risk_level = "LOW"
        /\ (HighAtrRatio /\ WeakFundamentals /\ ExtremeSentiment) =>
              recommendation.risk_level = "HIGH"

\* Exactly the three named factors hold, the historical-volatility factor does not,
\* and the risk level is HIGH.
C14_Witness ==
    /\ Returned /\ ~Failed /\ ~AssessmentRaises
    /\ HighAtrRatio /\ WeakFundamentals /\ ExtremeSentiment /\ ~HighDailyVolatility
    /\ recommendation.risk_level = "HIGH"

\* C17: when an exception arises during the risk assessment the risk level is
\* MEDIUM, and LOW is returned only by an assessment that ran to completion with
\* fewer than two risk factors.
C17_RiskFailSafe ==
    (Returned /\ ~Failed) =>
        /\ AssessmentRaises => recommendation.risk_level = "MEDIUM"
        /\ recommendation.risk_level = "LOW" =>
              ~AssessmentRaises /\ RiskFactorCount < 2

\* The ATR is set while current_price is 0, nothing is forced, the history has a
\* Close series, and the division by zero has given MEDIUM.
C17_Witness ==
    /\ Returned /\ ~Failed
    /\ forced_exception = "none"
    /\ AtrSet /\ PriceValue = Zero
    /\ historical_data # None /\ historical_data.has_close
    /\ recommendation.risk_level = "MEDIUM"

(***************************************************************************)
(* Further properties of analyze_fundamentals (SpecFundamentals)           *)
(***************************************************************************)
\* C16 as stated: an internal error (here the one of line 125, ROA present without
\* ROE) gives overall_assessment ERROR, and an ERROR result carries the neutral
\* score 50.0.
C16_Original ==
    Analyzed =>
        /\ RoaWithoutRoe => analysis.overall_assessment = "ERROR"
        /\ analysis.overall_assessment = "ERROR" => analysis.score = R(50, 1)

\* The band table of the specification: the points a present metric earns for its
\* value v.  ROE, ROA, the margins and the growth rates are read as percentages
\* (v * 100), the dividend yield is scaled by 100 when it is below 1.  Where two
\* bands of the table share an end ("1-2, 2-3"), the end belongs to the band the
\* table's own closed or open neighbour fixes: P/E 10-25 and P/B 1-3 are closed,
\* Debt/Equity bands are closed below (its last band is ">= 3"), PEG 1-2 is closed.
TablePoints(m, v) ==
    LET pct == Mul(v, R(100, 1))
        yld == IF Lt(v, R(1, 1)) THEN Mul(v, R(100, 1)) ELSE v
        Above(x, k) == Gt(x, R(k, 1))
        Below(x, k) == Lt(x, R(k, 1))
    IN  CASE m = "pe_ratio" ->
               IF Below(v, 10) THEN 10 ELSE IF ~Above(v, 25) THEN 15
               ELSE IF ~Above(v, 35) THEN 8 ELSE 3
          [] m = "pb_ratio" ->
               IF Below(v, 1) THEN 8 ELSE IF ~Above(v, 3) THEN 10
               ELSE IF ~Above(v, 5) THEN 5 ELSE 2
          [] m = "debt_to_equity" ->
               IF Below(v, 1) THEN 15 ELSE IF Below(v, 2) THEN 12
               ELSE IF Below(v, 3) THEN 7 ELSE 2
          [] m = "roe" ->
               IF Above(pct, 15) THEN 15 ELSE IF Above(pct, 10) THEN 12
               ELSE IF Above(pct, 5) THEN 8 ELSE 3
          [] m = "roa" ->
               IF Above(pct, 5) THEN 10 ELSE IF Above(pct, 3) THEN 8 ELSE 4
          [] m \in {"profit_margin", "revenue_growth"} ->
               IF Above(pct, 15) THEN 10 ELSE IF Above(pct, 10) THEN 8
               ELSE IF Above(pct, 5) THEN 5 ELSE 2
          [] m = "earnings_growth" ->
               IF Above(pct, 20) THEN 10 ELSE IF Above(pct, 10) THEN 8
               ELSE IF Above(pct, 5) THEN 5 ELSE 2
          [] m = "current_ratio" ->
               IF Above(v, 2) THEN 5 ELSE IF Above(v, 1) THEN 4 ELSE 1
          [] m = "quick_ratio" ->
               IF Gt(v, R(3, 2)) THEN 5 ELSE IF Above(v, 1) THEN 4 ELSE 2
          [] m = "peg_ratio" ->
               IF Above(v, 0) /\ Below(v, 1) THEN 5
               ELSE IF ~Below(v, 1) /\ ~Above(v, 2) THEN 4
               ELSE IF Above(v, 2) THEN 2 ELSE 1
          [] m = "operating_margin" ->
               IF Above(pct, 20) THEN 5 ELSE IF Above(pct, 15) THEN 4
               ELSE IF Above(pct, 10) THEN 3 ELSE 1
          [] m = "dividend_yield" ->
               IF Above(yld, 3) THEN 5 ELSE IF Gt(yld, R(3, 2)) THEN 4
               ELSE IF Above(yld, 0) THEN 2 ELSE 0
          [] m = "beta" ->
               IF Ge(v, R(4, 5)) /\ Le(v, R(6, 5)) THEN 5
               ELSE IF Lt(v, R(4, 5)) THEN 4
               ELSE IF Gt(v, R(3, 2)) THEN 2 ELSE 3

\* The "Max pts" column of the table.
TableMax(m) ==
    CASE m = "pe_ratio" -> 15         [] m = "pb_ratio" -> 10
      [] m = "debt_to_equity" -> 15   [] m = "roe" -> 15
      [] m = "roa" -> 10              [] m = "profit_margin" -> 10
      [] m = "revenue_growth" -> 10   [] m = "earnings_growth" -> 10
      [] m = "current_ratio" -> 5     [] m = "quick_ratio" -> 5
      [] m = "peg_ratio" -> 5         [] m = "operating_margin" -> 5
      [] m = "dividend_yield" -> 5    [] m = "beta" -> 5

TableOf(m) == TablePoints(m, fundamental_data[m])

\* Exactly the ratio m is present, with the value n / d.
Only(m, n, d) == Present = {m} /\ fundamental_data[m] = R(n, d)

\* C18 as stated: the points and the maxima that the blocks add up for the present
\* ratios are those of the band table, so the score of every analysis that
\* completes is 100 times the table's points over the table's maxima; P/E 10 and 25
\* earn 15 of 15, Debt/Equity 3 earns 2 of 15, PEG 0 and below earn 1 of 5.
C18_Original ==
    Analyzed =>
        /\ Blocks(fundamental_data, Len(Metrics)).score
              = SumPresent(TableOf, Len(Metrics))
        /\ Blocks(fundamental_data, Len(Metrics)).max_possible
              = SumPresent(TableMax, Len(Metrics))
        /\ (Present # {} /\ analysis.overall_assessment # "ERROR") =>
              analysis.score = R(100 * SumPresent(TableOf, Len(Metrics)),
                                 SumPresent(TableMax, Len(Metrics)))
        /\ (Only("pe_ratio", 10, 1) \/ Only("pe_ratio", 25, 1)) =>
              analysis.score = R(100, 1)
        /\ Only("debt_to_equity", 3, 1) => analysis.score = R(200, 15)
        /\ (Only("peg_ratio", 0, 1) \/ Only("peg_ratio", -1, 1)) =>
              analysis.score = R(20, 1)

\* C19 as stated: whenever ROA is present the analysis returns a ROA metric record,
\* whose status is GOOD exactly when the ROA percentage is above 3.
C19_Original ==
    (Analyzed /\ "roa" \in Present) =>
        /\ "roa" \in DOMAIN analysis.metrics
        /\ analysis.metrics.roa.status = "GOOD"
              <=> Gt(Mul(fundamental_data.roa, R(100, 1)), R(3, 1))

(***************************************************************************)
(* The weight of the three inputs (SpecPredictor)                          *)
(***************************************************************************)
NeutralTechnical == InSignalStrength = Zero

NeutralFundamentals == InFundamentalScore = R(50, 1)

NeutralSentiment == InSentiment = Zero

Traded == recommendation.action \in {"BUY", "SELL"}

\* C20 as stated: with the other two inputs neutral, no fundamental score gives BUY
\* or SELL, a signal strength of +/-100 does, and an overall sentiment of +/-1 does.
C20_Original ==
    (Returned /\ ~Failed) =>
        /\ (NeutralTechnical /\ NeutralSentiment) => ~Traded
        /\ (NeutralFundamentals /\ NeutralSentiment /\ RAbs(InSignalStrength) = R(100, 1))
              => Traded
        /\ (NeutralTechnical /\ NeutralFundamentals /\ RAbs(InSentiment) = R(1, 1))
              => Traded

\* C20 amended: with the other two inputs neutral, no fundamental score gives BUY or
\* SELL; a signal strength of +100 gives BUY and of -100 SELL (weighted score +/-40);
\* an overall sentiment of +/-1 gives a weighted score of +/-25 and HOLD.
C20_OnlyTechnicalAlone ==
    (Returned /\ ~Failed) =>
        /\ (NeutralTechnical /\ NeutralSentiment) => recommendation.action = "HOLD"
        /\ (NeutralFundamentals /\ NeutralSentiment /\ InSignalStrength = R(100, 1))
              => recommendation.action = "BUY" /\ Blend = R(40, 1)
        /\ (NeutralFundamentals /\ NeutralSentiment /\ InSignalStrength = R(-100, 1))
              => recommendation.action = "SELL" /\ Blend = R(-40, 1)
        /\ (NeutralTechnical /\ NeutralFundamentals /\ RAbs(InSentiment) = R(1, 1))
              => recommendation.action = "HOLD" /\ RAbs(Blend) = R(25, 1)

\* The strongest sentiment alone has been blended to -25 and has given HOLD.
C20_Witness ==
    /\ Returned /\ ~Failed
    /\ NeutralTechnical /\ NeutralFundamentals /\ InSentiment = R(-1, 1)
    /\ recommendation.weighted_score = R(-25, 1)
    /\ recommendation.action = "HOLD"

(***************************************************************************)
(* C25: confidence, action and position size                               *)
(***************************************************************************)
NormalPosition == "Normal position (3-5% of portfolio)"

VerySmallPosition == "Very small position (<1% of portfolio)"

\* confidence > 70 exactly for BUY and SELL, and the two sizes the claim excludes.
ConfidenceSplitsActions ==
    /\ Gt(recommendation.confidence, R(70, 1)) <=> Traded
    /\ Traded => Ge(recommendation.confidence, R(77, 1))
    /\ recommendation.action = "HOLD" => recommendation.position_size # NormalPosition
    /\ Traded => recommendation.position_size # VerySmallPosition

\* C25 as stated: in every Recommendation returned without an error field,
\* confidence > 70 exactly when the action is BUY or SELL, BUY/SELL confidence is at
\* least 77, HOLD confidence is in (35, 50], a HOLD never gets the Normal position and
\* a BUY/SELL never gets the Very small position.
C25_Original ==
    Returned /\ ~Failed =>
        /\ ConfidenceSplitsActions
        /\ recommendation.action = "HOLD" =>
              /\ Gt(recommendation.confidence, R(35, 1))
              /\ Le(recommendation.confidence, R(50, 1))

\* C25 amended: the same with the HOLD confidence in [35, 50]; the reported confidence
\* is rounded to one decimal, so a value just above 35 is reported as 35.0.
C25_ConfidenceByAction ==
    Returned /\ ~Failed =>
        /\ ConfidenceSplitsActions
        /\ recommendation.action = "HOLD" =>
              /\ Ge(recommendation.confidence, R(35, 1))
              /\ Le(recommendation.confidence, R(50, 1))

\* A HOLD just under the BUY threshold, reported with confidence 35.0 and sized
\* below the Normal position at LOW risk.
C25_Witness ==
    /\ Returned /\ ~Failed
    /\ recommendation.action = "HOLD"
    /\ Gt(HoldConfidence, R(35, 1))
    /\ recommendation.confidence = R(35, 1)
    /\ recommendation.risk_level = "LOW"
    /\ recommendation.position_size = "Moderate position (2-3% of portfolio)"

(***************************************************************************)
(* C26: the closing sentence of the reasoning                              *)
(***************************************************************************)
\* The last part of the reasoning text.
Closing == recommendation.reasoning[Len(recommendation.reasoning)][2]

\* C26 as stated: in every Recommendation returned without an error field the
\* closing sentence is the bullish one exactly for BUY, the bearish one exactly for
\* SELL and the mixed one exactly for HOLD, also at a weighted score of 30 and -30.
C26_Original ==
    Returned /\ ~Failed =>
        /\ Closing = "Strong bullish signals across all analyses"
              <=> recommendation.action = "BUY"
        /\ Closing = "Strong bearish signals across all analyses"
              <=> recommendation.action = "SELL"
        /\ Closing = "Mixed signals, suggesting cautious approach"
              <=> recommendation.action = "HOLD"

(***************************************************************************)
(* C27: price levels and action                                            *)
(***************************************************************************)
\* C27 as stated: in every Recommendation returned without an error field with a
\* positive current price, on the volatility path, the insufficient-history fallback
\* and the default of a failed price-target calculation alike, BUY implies
\* stop_loss < current_price <= target_price and SELL implies
\* target_price <= current_price < stop_loss.
C27_Original ==
    Returned /\ ~Failed /\ Gt(current_price, Zero) =>
        /\ recommendation.action = "BUY" =>
              /\ Lt(recommendation.stop_loss, current_price)
              /\ Le(current_price, recommendation.target_price)
        /\ recommendation.action = "SELL" =>
              /\ Le(recommendation.target_price, current_price)
              /\ Lt(current_price, recommendation.stop_loss)

(***************************************************************************)
(* C28: monotonicity of the weighted score and the action                  *)
(***************************************************************************)
\* SELL < HOLD < BUY.
Rank(action) == CASE action = "SELL" -> 0 [] action = "HOLD" -> 1 [] action = "BUY" -> 2

FundamentalScores == {fa.score : fa \in FundamentalAnalyses}

Sentiments == {sa.overall_sentiment : sa \in SentimentAnalyses}

\* The weighted score and the action of generate_recommendation for every
\* combination of the three inputs.
ScoreOf ==
    [t \in SignalStrengths, f \in FundamentalScores, s \in Sentiments |->
        WeightedScore(t, f, s)]

ActionOf ==
    [t \in SignalStrengths, f \in FundamentalScores, s \in Sentiments |->
        Decide(ScoreOf[t, f, s]).action]

\* The weighted score and the action for the inputs (t, f, s) are not below those of
\* the recommendation that was returned.
NotLowered(t, f, s) ==
    /\ Ge(ScoreOf[t, f, s], ScoreOf[InSignalStrength, InFundamentalScore, InSentiment])
    /\ Rank(ActionOf[t, f, s]) >= Rank(recommendation.action)

\* C28: weighted_score is non-decreasing in signal_strength, in the fundamental score
\* and in overall_sentiment with the other two held fixed, so raising one input never
\* moves the action from BUY to HOLD or SELL, nor from HOLD to SELL.
C28_Monotone ==
    Returned /\ ~Failed =>
        /\ \A t \in SignalStrengths :
              Ge(t, InSignalStrength) => NotLowered(t, InFundamentalScore, InSentiment)
        /\ \A f \in FundamentalScores :
              Ge(f, InFundamentalScore) => NotLowered(InSignalStrength, f, InSentiment)
        /\ \A s \in Sentiments :
              Ge(s, InSentiment) => NotLowered(InSignalStrength, InFundamentalScore, s)

\* A HOLD was returned, and each of the three inputs, raised alone, gives a BUY.
C28_Witness ==
    /\ Returned /\ ~Failed
    /\ recommendation.action = "HOLD"
    /\ \E t \in SignalStrengths :
          /\ Gt(t, InSignalStrength)
          /\ ActionOf[t, InFundamentalScore, InSentiment] = "BUY"
    /\ \E f \in FundamentalScores :
          /\ Gt(f, InFundamentalScore)
          /\ ActionOf[InSignalStrength, f, InSentiment] = "BUY"
    /\ \E s \in Sentiments :
          /\ Gt(s, InSentiment)
          /\ ActionOf[InSignalStrength, InFundamentalScore, s] = "BUY"

(***************************************************************************)
(* C23: the tallies of generate_signals                                    *)
(***************************************************************************)
\* An indicator as the rules read it: its default when it is missing.
Reading(key, default) == Get(WithoutNone(indicators), key, default)

ExpectedBuys ==
    Count(Lt(Reading("rsi", R(50, 1)), R(30, 1)))
    + Count(Gt(Reading("macd_diff", Zero), Zero))
    + Count(Reading("trend", "NEUTRAL") = "UPTREND")
    + Count(Gt(Reading("price_vs_sma20", Zero), R(2, 1)))
    + Count(Lt(Reading("current_price", Zero), Reading("bb_lower", Zero)))

ExpectedSells ==
    Count(Gt(Reading("rsi", R(50, 1)), R(70, 1)))
    + Count(Lt(Reading("macd_diff", Zero), Zero))
    + Count(Reading("trend", "NEUTRAL") = "DOWNTREND")
    + Count(Lt(Reading("price_vs_sma20", Zero), R(-2, 1)))
    + Count(/\ ~Lt(Reading("current_price", Zero), Reading("bb_lower", Zero))
            /\ Gt(Reading("current_price", Zero), Reading("bb_upper", Zero)))

ExpectedNeutrals ==
    Count(/\ ~Lt(Reading("rsi", R(50, 1)), R(30, 1))
          /\ ~Gt(Reading("rsi", R(50, 1)), R(70, 1)))

VolumeLine ==
    \E i \in DOMAIN signals.reasoning :
        signals.reasoning[i] = "High volume confirms price movement"

\* C23 as stated: RSI < 30 one buy, > 70 one sell, otherwise one neutral; MACD
\* histogram > 0 one buy, < 0 one sell; UPTREND one buy, DOWNTREND one sell;
\* price-vs-SMA20 > 2 one buy, < -2 one sell; price below the lower Bollinger band one
\* buy, above the upper band one sell; a volume ratio > 1.5 adds a reasoning line and
\* no tally; only the RSI rule adds to neutral_signals.
C23_Original ==
    Signalled =>
        /\ signals.buy_signals = ExpectedBuys
        /\ signals.sell_signals = ExpectedSells
        /\ signals.neutral_signals = ExpectedNeutrals
        /\ VolumeLine <=> Gt(Reading("volume_ratio", R(1, 1)), R(15, 10))

(***************************************************************************)
(* C29: the sentiment breakdown                                            *)
(***************************************************************************)
\* The categories that have at least one article.
NonEmpty == {c \in CategoryNames : news_dict[c] # <<>>}

\* The number of non-empty categories whose sentiment_label is label.
Labelled(label) == Cardinality({c \in NonEmpty : results[c].sentiment_label = label})

\* C29 as stated: each of the five counters of sentiment_breakdown is the number of
\* categories with at least one article whose sentiment_label is the counter's, and
\* nothing else is counted: the counters sum to the number of non-empty categories.
C29_Original ==
    Collected =>
        /\ results.sentiment_breakdown.very_positive = Labelled("VERY_POSITIVE")
        /\ results.sentiment_breakdown.positive = Labelled("POSITIVE")
        /\ results.sentiment_breakdown.neutral = Labelled("NEUTRAL")
        /\ results.sentiment_breakdown.negative = Labelled("NEGATIVE")
        /\ results.sentiment_breakdown.very_negative = Labelled("VERY_NEGATIVE")
        /\ results.sentiment_breakdown.very_positive + results.sentiment_breakdown.positive
              + results.sentiment_breakdown.neutral + results.sentiment_breakdown.negative
              + results.sentiment_breakdown.very_negative = Cardinality(NonEmpty)

(***************************************************************************)
(* C30: the overall sentiment as a pooled mean                             *)
(***************************************************************************)
\* All articles of the collection in one list.
Pooled == news_dict.global_news \o news_dict.indian_market_news \o news_dict.company_news

\* The sum of the combined scores (vader + textblob) / 2 of a list of articles.
ScoreSum(articles) ==
    Sum([i \in DOMAIN articles |->
            Div(Add(articles[i].vader, articles[i].textblob), R(2, 1))])

\* The sum of the scores of all articles divided by their number.
PooledMean ==
    Div(Add(Add(ScoreSum(news_dict.global_news), ScoreSum(news_dict.indian_market_news)),
            ScoreSum(news_dict.company_news)),
        R(Len(Pooled), 1))

\* C30: overall_sentiment is the sum of the combined scores of all analysed articles
\* of all categories divided by their number, and lies in [-1, 1] (every article
\* score does); when no category has an article it is 0.0 and the result has no
\* overall_sentiment_label.
C30_PooledMean ==
    Collected =>
        IF Pooled # <<>>
        THEN /\ results.overall_sentiment = PooledMean
             /\ Le(R(-1, 1), results.overall_sentiment)
             /\ Le(results.overall_sentiment, R(1, 1))
        ELSE /\ results.overall_sentiment = Zero
             /\ "overall_sentiment_label" \notin DOMAIN results

\* One article of score 0.6 in one category and two of scores 0.2 and -0.6 in
\* another: the overall sentiment is 0.2 / 3, not the mean 0.2 of the two category
\* averages.
C30_Witness ==
    /\ Collected
    /\ Len(Pooled) = 3
    /\ \E c \in CategoryNames : Len(news_dict[c]) = 2
    /\ results.overall_sentiment = R(1, 15)
    /\ results.overall_sentiment = PooledMean

(***************************************************************************)
(* StockAnalysisCrew.analyze_stock (agents/crew_config.py 68-144)          *)
(***************************************************************************)
\* Mutant of Program: the news are fetched after the sentiment analysis.
ProgramNewsFetchedLate ==
    <<"get_all_data", "check_price", "calculate_indicators", "generate_signals",
      "analyze_fundamentals", "analyze_news_collection", "get_all_news",
      "generate_recommendation", "compile_results">>

\* The statements of the try block in the order of lines 82-140; pc is the index of
\* the one to run next.
Program ==
    <<"get_all_data", "check_price", "calculate_indicators", "generate_signals",
      "analyze_fundamentals", "get_all_news", "analyze_news_collection",
      "generate_recommendation", "compile_results">>

\* analyze_stock has returned.
Done == Len(Program) + 1

At(step) == pc \in DOMAIN Program /\ Program[pc] = step

\* Mutant of PriceMissing: only None counts as a missing price.
PriceMissingOnlyNone(price) == price = None

\* line 84: not stock_data.get('current_price').
PriceMissing(price) == ~Truthy(price)

\* stock_fetcher.py 115-122: the four fetches of get_all_data, in their order.
StockFetches ==
    <<"get_stock_info", "get_current_price", "get_historical_data",
      "get_fundamental_data">>

\* What the data sources can answer.  get_stock_info: {} after an error, or the
\* company's entry; get_current_price: None, 0 or a price; get_historical_data: an
\* empty frame or a year of bars; get_fundamental_data: nothing reported, ROA
\* without ROE, or a full set of ratios.
StockInfos == {<<>>, [symbol |-> "RELIANCE", name |-> "Reliance Industries Limited"]}

FetchedPrices == {None, Zero, R(100, 1)}

FetchedHistories == {Frame(0, TRUE, None), Frame(60, TRUE, R(5, 100))}

FetchedFundamentals ==
    { [m \in MetricNames |-> None],
      [m \in MetricNames |-> IF m = "roa" THEN R(6, 100) ELSE None],
      [m \in MetricNames |-> ProfileValue(m, 1)] }

StockData ==
    { [info |-> i, current_price |-> p, historical_data |-> h, fundamental_data |-> f] :
      i \in StockInfos, p \in FetchedPrices, h \in FetchedHistories,
      f \in FetchedFundamentals }

\* technical_analyzer.py 20-114: {} for an empty or short frame or after an error;
\* otherwise the indicator values the ta library computes, which are not modelled:
\* any of a few indicator sets, one of them with a None value.
CalculatedIndicators(df) ==
    IF Empty(df) \/ df.len < 20 \/ ~df.has_close
    THEN {<<>>}
    ELSE { <<>>,
           [rsi |-> R(20, 1), macd_diff |-> R(1, 2), trend |-> "UPTREND",
            price_vs_sma20 |-> R(3, 1), volume_ratio |-> R(2, 1),
            current_price |-> R(100, 1), bb_lower |-> R(90, 1), bb_upper |-> R(110, 1),
            atr |-> R(6, 1)],
           [rsi |-> R(80, 1), macd_diff |-> None, trend |-> "DOWNTREND"] }

\* news_fetcher.py 165-173: what the three feeds can answer.
FetchedNews ==
    { [global_news |-> <<>>, indian_market_news |-> <<>>, company_news |-> <<>>],
      [global_news |-> <<>>,
       indian_market_news |-> <<Article(R(8, 10), R(4, 10))>>,
       company_news |-> <<Article(R(3, 10), R(1, 10)), Article(R(-7, 10), R(-5, 10))>>],
      [global_news |-> <<Article(R(8, 10), R(4, 10))>>,
       indian_market_news |-> <<Article(R(8, 10), R(4, 10))>>,
       company_news |-> <<Article(R(8, 10), R(4, 10)), Article(R(8, 10), R(4, 10))>>] }

InitCrew ==
    /\ pc = 1
    /\ calls = <<>>
    /\ stock_data = None
    /\ crew_results = NotCalled
    /\ time_horizon_weeks \in 1..MaxWeeks
    /\ forced_exception \in {"none", "blend"}
    /\ current_price = None
    /\ historical_data = None
    /\ technical_analysis = <<>>
    /\ fundamental_analysis = <<>>
    /\ sentiment_analysis = <<>>
    /\ indicators = <<>>
    /\ fundamental_data = <<>>
    /\ news_dict = <<>>
    /\ recommendation = NotCalled
    /\ signals = NotCalled
    /\ analysis = NotCalled
    /\ results = NotCalled

\* line 82: get_all_data makes its four fetches.
GetAllData ==
    /\ At("get_all_data")
    /\ stock_data' \in StockData
    /\ calls' = calls \o StockFetches
    /\ pc' = pc + 1
    /\ UNCHANGED <<predictor_vars, technical_vars, fundamental_vars, sentiment_vars,
                   crew_results>>

\* lines 84-89: without a price the error dict is returned at once.
CheckPrice ==
    /\ At("check_price")
    /\ IF PriceMissing(stock_data.current_price)
       THEN /\ crew_results' = [error |-> "Could not fetch data"]
            /\ pc' = Done
            /\ UNCHANGED <<current_price, historical_data, fundamental_data>>
       ELSE /\ current_price' = stock_data.current_price
            /\ historical_data' = stock_data.historical_data
            /\ fundamental_data' = stock_data.fundamental_data
            /\ pc' = pc + 1
            /\ UNCHANGED crew_results
    /\ UNCHANGED <<time_horizon_weeks, technical_analysis, fundamental_analysis,
                   sentiment_analysis, forced_exception, recommendation, technical_vars,
                   analysis, sentiment_vars, calls, stock_data>>

\* line 93.
CalculateIndicators ==
    /\ At("calculate_indicators")
    /\ indicators' \in CalculatedIndicators(historical_data)
    /\ calls' = Append(calls, "calculate_indicators")
    /\ pc' = pc + 1
    /\ UNCHANGED <<predictor_vars, signals, fundamental_vars, sentiment_vars,
                   stock_data, crew_results>>

\* lines 94-98.
CrewGenerateSignals ==
    /\ At("generate_signals")
    /\ signals' = generate_signals(indicators)
    /\ technical_analysis' = [indicators |-> indicators, signals |-> signals']
    /\ calls' = Append(calls, "generate_signals")
    /\ pc' = pc + 1
    /\ UNCHANGED <<current_price, time_horizon_weeks, fundamental_analysis,
                   sentiment_analysis, historical_data, forced_exception, recommendation,
                   indicators, fundamental_vars, sentiment_vars, stock_data,
                   crew_results>>

\* line 101.
CrewAnalyzeFundamentals ==
    /\ At("analyze_fundamentals")
    /\ fundamental_analysis' = analyze_fundamentals(fundamental_data)
    /\ calls' = Append(calls, "analyze_fundamentals")
    /\ pc' = pc + 1
    /\ UNCHANGED <<current_price, time_horizon_weeks, technical_analysis,
                   sentiment_analysis, historical_data, forced_exception, recommendation,
                   technical_vars, fundamental_vars, sentiment_vars, stock_data,
                   crew_results>>

\* line 104.
GetAllNews ==
    /\ At("get_all_news")
    /\ news_dict' \in FetchedNews
    /\ calls' = Append(calls, "get_all_news")
    /\ pc' = pc + 1
    /\ UNCHANGED <<predictor_vars, technical_vars, fundamental_vars, results,
                   stock_data, crew_results>>

\* line 105.
CrewAnalyzeNews ==
    /\ At("analyze_news_collection")
    /\ sentiment_analysis' = analyze_news_collection(news_dict)
    /\ calls' = Append(calls, "analyze_news_collection")
    /\ pc' = pc + 1
    /\ UNCHANGED <<current_price, time_horizon_weeks, technical_analysis,
                   fundamental_analysis, historical_data, forced_exception,
                   recommendation, technical_vars, fundamental_vars, sentiment_vars,
                   stock_data, crew_results>>

\* lines 112-122.
CrewPredict ==
    /\ At("generate_recommendation")
    /\ recommendation' = generate_recommendation(stock_data.current_price,
                            time_horizon_weeks, technical_analysis, fundamental_analysis,
                            sentiment_analysis, historical_data, forced_exception)
    /\ calls' = Append(calls, "generate_recommendation")
    /\ pc' = pc + 1
    /\ UNCHANGED <<current_price, time_horizon_weeks, technical_analysis,
                   fundamental_analysis, sentiment_analysis, historical_data,
                   forced_exception, technical_vars, fundamental_vars, sentiment_vars,
                   stock_data, crew_results>>

\* lines 125-140.
CompileResults ==
    /\ At("compile_results")
    /\ crew_results' =
          [stock_info           |-> stock_data.info,
           current_price        |-> stock_data.current_price,
           technical_analysis   |-> technical_analysis,
           fundamental_analysis |-> fundamental_analysis,
           sentiment_analysis   |-> sentiment_analysis,
           recommendation       |-> recommendation,
           news_summary         |->
              [global_news_count  |-> Len(Get(news_dict, "global_news", <<>>)),
               indian_news_count  |-> Len(Get(news_dict, "indian_market_news", <<>>)),
               company_news_count |-> Len(Get(news_dict, "company_news", <<>>))]]
    /\ pc' = Done
    /\ UNCHANGED <<predictor_vars, technical_vars, fundamental_vars, sentiment_vars,
                   calls, stock_data>>

\* lines 142-144: the statement at pc raises, and the except clause returns the
\* error dict.
Except ==
    /\ pc \in DOMAIN Program
    /\ crew_results' = [error |-> "Analysis failed"]
    /\ calls' = Append(calls, "exception")
    /\ pc' = Done
    /\ UNCHANGED <<predictor_vars, technical_vars, fundamental_vars, sentiment_vars,
                   stock_data>>

NextCrew ==
    \/ GetAllData
    \/ CheckPrice
    \/ CalculateIndicators
    \/ CrewGenerateSignals
    \/ CrewAnalyzeFundamentals
    \/ GetAllNews
    \/ CrewAnalyzeNews
    \/ CrewPredict
    \/ CompileResults
    \/ Except

SpecCrew == InitCrew /\ [][NextCrew]_vars

(***************************************************************************)
(* Properties of analyze_stock (SpecCrew)                                  *)
(***************************************************************************)
Fetches == {"get_stock_info", "get_current_price", "get_historical_data",
            "get_fundamental_data", "get_all_news"}

\* The fundamental scorer, the sentiment aggregator and the synthesizer.
CoreComponents == {"analyze_fundamentals", "analyze_news_collection",
                   "generate_recommendation"}

\* Call a was made before call b.
Before(a, b) == \E i, j \in DOMAIN calls : i < j /\ calls[i] = a /\ calls[j] = b

Called(a) == \E i \in DOMAIN calls : calls[i] = a

\* C21 as stated: all fetches (stock info, price, history, fundamentals, news) are
\* made before the first core component is invoked; no fetch follows a call of a
\* core component.
C21_Original ==
    \A c \in CoreComponents, f \in Fetches : ~Before(c, f)

\* C21 amended: the four stock fetches are made before the first core component is
\* invoked, and the news fetch before the sentiment aggregator and the synthesizer;
\* the only fetch that follows a call of a core component is the news fetch, which
\* follows the fundamental scorer.
C21_FetchBeforeUse ==
    /\ \A c \in CoreComponents, f \in Fetches :
          Before(c, f) => f = "get_all_news" /\ c = "analyze_fundamentals"
    /\ \A c \in CoreComponents, f \in Fetches \ {"get_all_news"} :
          Called(c) => Before(f, c)
    /\ \A c \in {"analyze_news_collection", "generate_recommendation"} :
          Called(c) => Before("get_all_news", c)
    /\ Called("get_all_news") => Before("analyze_fundamentals", "get_all_news")

\* A run that returned its result: the news were fetched after the fundamental
\* scorer and before the sentiment aggregator.
C21_Witness ==
    /\ pc = Done
    /\ "recommendation" \in DOMAIN crew_results
    /\ Before("get_fundamental_data", "analyze_fundamentals")
    /\ Before("analyze_fundamentals", "get_all_news")
    /\ Before("get_all_news", "analyze_news_collection")

\* The price that was fetched is None or 0.
NoPrice ==
    /\ stock_data # None
    /\ stock_data.current_price = None \/ stock_data.current_price = Zero

\* Everything analyze_stock calls after its price check.
LaterCalls == {"calculate_indicators", "generate_signals", "analyze_fundamentals",
               "get_all_news", "analyze_news_collection", "generate_recommendation"}

ErrorOnly == DOMAIN crew_results = {"error"}

\* C22: analyze_stock always returns a dict.  When the fetched price is None or 0 it
\* returns one holding only 'error', and no analyzer, news fetch or predictor is
\* called; when a step raises it returns one holding 'error'; every dict returned
\* without 'error' holds stock_info, current_price, the three analyses and the
\* recommendation that were computed.
C22_ErrorsReturned ==
    /\ pc = Done => crew_results # NotCalled
    /\ NoPrice => \A c \in LaterCalls : ~Called(c)
    /\ NoPrice /\ pc = Done => ErrorOnly
    /\ Called("exception") => pc = Done /\ ErrorOnly
    /\ pc = Done /\ "error" \notin DOMAIN crew_results =>
          /\ {"stock_info", "current_price", "technical_analysis",
              "fundamental_analysis", "sentiment_analysis", "recommendation"}
                \subseteq DOMAIN crew_results
          /\ crew_results.stock_info = stock_data.info
          /\ crew_results.current_price = stock_data.current_price
          /\ Gt(crew_results.current_price, Zero)
          /\ crew_results.technical_analysis =
                [indicators |-> indicators, signals |-> generate_signals(indicators)]
          /\ crew_results.fundamental_analysis = analyze_fundamentals(fundamental_data)
          /\ crew_results.sentiment_analysis = analyze_news_collection(news_dict)
          /\ crew_results.recommendation = recommendation
          /\ recommendation # NotCalled
          /\ \A c \in LaterCalls : Called(c)

\* A price of 0 was fetched: the error dict was returned after the four stock
\* fetches, with nothing else called.
C22_Witness ==
    /\ pc = Done
    /\ stock_data # None /\ stock_data.current_price = Zero
    /\ crew_results = [error |-> "Could not fetch data"]
    /\ calls = StockFetches

====
